---------------------------- MODULE Spec2Model ----------------------------
(***************************************************************************)
(* Model of src/main.py of czarflix/resume_transform: the LLM gateway      *)
(* call_gemini_api (retry loop), the request handler                       *)
(* transform_resume_endpoint (Analyze, Verify, Transform, Final QA, the    *)
(* Python-only cleanup steps and rendering) and the keyword reconciliation *)
(* step as a function of a skills string and a master keyword list.        *)
(*                                                                         *)
(* Text is a sequence of one-character strings, so that str.lower,         *)
(* str.strip, str.split(','), ", ".join and sorted are computed as Python  *)
(* computes them.  A contact line is a sequence of tokens ("http://",      *)
(* "linkedin.com", ...) none of which overlaps a pattern of                *)
(* enforce_absolute_urls except as a whole.                                *)
(***************************************************************************)
EXTENDS Integers, Sequences, FiniteSets, TLC

VARIABLES
    gw_pc,        \* call_gemini_api: "idle", "post", "sleep", "returned", "raised"
    gw_stage,     \* which call site invoked the gateway
    gw_attempt,   \* the loop variable `attempt` (0-based)
    gw_attempts,  \* number of client.post calls issued by this invocation
    gw_sleeps,    \* number of asyncio.sleep calls made by this invocation
    gw_delays,    \* the delays slept by this invocation, in tenths of a second
    gw_seen,      \* set of per-attempt outcomes observed by this invocation
    gw_last,      \* outcome of the latest attempt
    gw_result,    \* what the invocation returned (or that it raised)
    pc,           \* position of transform_resume_endpoint
    calls,        \* gateway invocations issued by the request, in order
    jd_analysis_report,
    master_keyword_list,
    resume_object_draft,
    final_resume_object,
    ran,          \* deterministic steps entered so far, in order
    response,     \* the HTTP answer of the request
    last,         \* the latest stage that returned and the branch it took
    rc_pc,        \* reconciliation as a function: "input", "done"
    rc_K,         \* its master keyword list
    rc_S,         \* its skills string
    rc_out,       \* the skills string after the step
    url_pc,       \* enforce_absolute_urls as a function: "input", "once", "twice"
    url_in,       \* its contact line
    url_out,      \* the line it returned
    up_pc,        \* upload block, per request: position in lines 1491-1518
    up_name,      \* per request: resume_file.filename
    up_fs,        \* the working directory: per temp path, absent or whose bytes it holds
    up_text,      \* per request: original_resume_text
    up_status,    \* per request: 0 while in the block, 200 past it, else the error status
    jd_all_skills_str,  \* the required-keywords string put into the Final QA prompt
    tp_pc,        \* the form fields and the Transform prompt: "input", "built"
    tp_weeks,     \* form field time_in_weeks: whether it was sent, and the integer
    tp_multiplier,  \* form field ai_multiplier: whether it was sent, and the integer
    tp_prompt,    \* the two slots of the Transform prompt after .replace
    ex_pc,        \* the clean-up and parse of a model's text: "input", "parsed"
    ex_stage,     \* the stage whose parse block reads the text
    ex_pre,       \* what the model wrote before the JSON object
    ex_obj,       \* the JSON object it wrote
    ex_post,      \* what it wrote after the object
    ex_out,       \* what json.loads made of the cleaned text
    lk_pc,        \* the link collection of parse_resume_pdf: "input", "collected"
    lk_annots,    \* the link annotations of the pages, in order
    lk_plain,     \* what find_urls_in_text returns for the full text
    lk_details    \* link_details

gw_vars == <<gw_pc, gw_stage, gw_attempt, gw_attempts, gw_sleeps, gw_delays, gw_seen, gw_last,
            gw_result>>
ep_vars == <<pc, calls, jd_analysis_report, master_keyword_list, resume_object_draft,
             final_resume_object, ran, response, last, jd_all_skills_str>>
rc_vars == <<rc_pc, rc_K, rc_S, rc_out>>
url_vars == <<url_pc, url_in, url_out>>
up_vars == <<up_pc, up_name, up_fs, up_text, up_status>>
tp_vars == <<tp_pc, tp_weeks, tp_multiplier, tp_prompt>>
ex_vars == <<ex_pc, ex_stage, ex_pre, ex_obj, ex_post, ex_out>>
lk_vars == <<lk_pc, lk_annots, lk_plain, lk_details>>
vars == <<gw_vars, ep_vars, rc_vars, url_vars, up_vars, tp_vars, ex_vars, lk_vars>>

-----------------------------------------------------------------------------
(* Text as Python str *)

Chars == {" ", ",", "A", "a", "b"}

\* code point order of the characters used: ' ' < ',' < 'A' < 'a' < 'b'
Ord(c) ==
    CASE c = " " -> 32
      [] c = "," -> 44
      [] c = "A" -> 65
      [] c = "a" -> 97
      [] c = "b" -> 98

\* str.lower on one character
LowerChar(c) == IF c = "A" THEN "a" ELSE c

\* str.lower
Lower(s) == [i \in 1..Len(s) |-> LowerChar(s[i])]

RECURSIVE LStrip(_)
LStrip(s) == IF s # <<>> /\ Head(s) = " " THEN LStrip(Tail(s)) ELSE s

RECURSIVE RStrip(_)
RStrip(s) ==
    IF s # <<>> /\ s[Len(s)] = " " THEN RStrip(SubSeq(s, 1, Len(s) - 1)) ELSE s

\* str.strip
Strip(s) == RStrip(LStrip(s))

\* str.split(','): always at least one piece; "" splits into [""]
RECURSIVE SplitFrom(_, _)
SplitFrom(s, cur) ==
    IF s = <<>> THEN <<cur>>
    ELSE IF Head(s) = "," THEN <<cur>> \o SplitFrom(Tail(s), <<>>)
    ELSE SplitFrom(Tail(s), Append(cur, Head(s)))

Split(s) == SplitFrom(s, <<>>)

\* ", ".join(list)
RECURSIVE Join(_)
Join(l) ==
    IF l = <<>> THEN <<>>
    ELSE IF Len(l) = 1 THEN l[1]
    ELSE l[1] \o <<",", " ">> \o Join(Tail(l))

\* str < str: lexicographic by code point
RECURSIVE StrLess(_, _)
StrLess(s, t) ==
    IF t = <<>> THEN FALSE
    ELSE IF s = <<>> THEN TRUE
    ELSE IF Head(s) # Head(t) THEN Ord(Head(s)) < Ord(Head(t))
    ELSE StrLess(Tail(s), Tail(t))

\* sorted(list(set(...))) of a set of strings
RECURSIVE Sorted(_)
Sorted(S) ==
    IF S = {} THEN <<>>
    ELSE LET m == CHOOSE x \in S : \A y \in S \ {x} : StrLess(x, y)
         IN  <<m>> \o Sorted(S \ {m})

Range(l) == {l[i] : i \in 1..Len(l)}

\* [f(x) for x in l if keep(x)] with f the identity
RECURSIVE Filter(_, _)
Filter(l, keep) ==
    IF l = <<>> THEN <<>>
    ELSE IF Head(l) \in keep THEN <<Head(l)>> \o Filter(Tail(l), keep)
    ELSE Filter(Tail(l), keep)

\* `sub in s` and s.replace(old, new) (leftmost, non-overlapping), on any sequence
StartsWith(s, p) == Len(p) <= Len(s) /\ SubSeq(s, 1, Len(p)) = p

RECURSIVE Contains(_, _)
Contains(s, sub) ==
    IF StartsWith(s, sub) THEN TRUE
    ELSE IF s = <<>> THEN FALSE
    ELSE Contains(Tail(s), sub)

RECURSIVE Replace(_, _, _)
Replace(s, old, new) ==
    IF s = <<>> THEN <<>>
    ELSE IF StartsWith(s, old) THEN new \o Replace(SubSeq(s, Len(old) + 1, Len(s)), old, new)
    ELSE <<Head(s)>> \o Replace(Tail(s), old, new)

-----------------------------------------------------------------------------
(* call_gemini_api *)

max_retries == 5

Stages == {"analyze", "verify", "transform", "final_qa"}

\* what one client.post attempt can end in
Outcomes == {"ok_json", "ok_nonjson", "c4xx", "s5xx", "transport"}

\* raise_for_status raised HTTPStatusError with 400 <= status < 500
IsClientError(o) == o = "c4xx"

\* the attempt ended in one of the two except clauses and was not a 4xx
IsRetryable(o) == o \in {"s5xx", "transport"}

ClientError == [kind |-> "error", error |-> "Client Error", details |-> TRUE]
GenericFailure == [kind |-> "error", error |-> "API call failed after several retries.",
                   details |-> FALSE]
Envelope == [kind |-> "envelope", error |-> "", details |-> FALSE]
Escaped == [kind |-> "exception", error |-> "", details |-> FALSE]
NoResult == [kind |-> "none", error |-> "", details |-> FALSE]

\* `"error" in api_response`
HasErrorKey(r) == r.kind = "error"

GwIdle ==
    /\ gw_pc = "idle" /\ gw_stage = "none" /\ gw_attempt = 0 /\ gw_attempts = 0
    /\ gw_sleeps = 0 /\ gw_delays = <<>> /\ gw_seen = {} /\ gw_last = "none"
    /\ gw_result = NoResult

\* entry of call_gemini_api up to the first client.post
GwStart(stage) ==
    /\ gw_pc' = "post"
    /\ gw_stage' = stage
    /\ gw_attempt' = 0
    /\ gw_attempts' = 0
    /\ gw_sleeps' = 0
    /\ gw_delays' = <<>>
    /\ gw_seen' = {}
    /\ gw_last' = "none"
    /\ gw_result' = NoResult

\* the caller has taken the result
GwReset ==
    /\ gw_pc' = "idle"
    /\ gw_stage' = "none"
    /\ gw_attempt' = 0
    /\ gw_attempts' = 0
    /\ gw_sleeps' = 0
    /\ gw_delays' = <<>>
    /\ gw_seen' = {}
    /\ gw_last' = "none"
    /\ gw_result' = NoResult

\* the 4xx branch is missing: every HTTPStatusError is slept on and retried
AfterAttemptRetries4xx(o) ==
    IF o = "ok_json" THEN [pc |-> "returned", result |-> Envelope, sleep |-> 0]
    ELSE IF o = "ok_nonjson" THEN [pc |-> "raised", result |-> Escaped, sleep |-> 0]
    ELSE [pc |-> "sleep", result |-> NoResult, sleep |-> 1]

\* a transport error is not retried: the invocation gives up at once
AfterAttemptTransportFatal(o) ==
    IF o = "ok_json" THEN [pc |-> "returned", result |-> Envelope, sleep |-> 0]
    ELSE IF o = "ok_nonjson" THEN [pc |-> "raised", result |-> Escaped, sleep |-> 0]
    ELSE IF IsClientError(o) THEN [pc |-> "returned", result |-> ClientError, sleep |-> 0]
    ELSE IF o = "transport" THEN [pc |-> "returned", result |-> GenericFailure, sleep |-> 0]
    ELSE [pc |-> "sleep", result |-> NoResult, sleep |-> 1]

\* where one attempt with outcome o leaves the invocation
AfterAttempt(o) ==
    IF o = "ok_json" THEN [pc |-> "returned", result |-> Envelope, sleep |-> 0]
    ELSE IF o = "ok_nonjson" THEN [pc |-> "raised", result |-> Escaped, sleep |-> 0]
    ELSE IF IsClientError(o) THEN [pc |-> "returned", result |-> ClientError, sleep |-> 0]
    ELSE [pc |-> "sleep", result |-> NoResult, sleep |-> 1]

base_delay == 1

RECURSIVE Pow2(_)
Pow2(n) == IF n = 0 THEN 1 ELSE 2 * Pow2(n - 1)

\* the delay grows linearly with the attempt
DelayLinear(attempt) == (base_delay * (attempt + 1) * 10) + attempt

\* delay = (base_delay * 2**attempt) + (attempt * 0.1), in tenths of a second
Delay(attempt) == (base_delay * Pow2(attempt) * 10) + attempt

\* one iteration of the retry loop up to its return, raise or asyncio.sleep
\* no sleep after the failure of the last attempt: the failure is returned at once
HttpAttemptNoFinalSleep ==
    /\ gw_pc = "post"
    /\ \E o \in Outcomes :
        LET a == IF AfterAttempt(o).sleep = 1 /\ gw_attempt + 1 >= max_retries
                 THEN [pc |-> "returned", result |-> GenericFailure, sleep |-> 0]
                 ELSE AfterAttempt(o)
        IN
        /\ gw_attempts' = gw_attempts + 1
        /\ gw_seen' = gw_seen \cup {o}
        /\ gw_last' = o
        /\ gw_pc' = a.pc
        /\ gw_result' = a.result
        /\ gw_sleeps' = gw_sleeps + a.sleep
        /\ gw_delays' = IF a.sleep = 1 THEN Append(gw_delays, Delay(gw_attempt)) ELSE gw_delays
    /\ UNCHANGED <<gw_stage, gw_attempt, ep_vars, rc_vars, url_vars, up_vars, tp_vars, ex_vars, lk_vars>>

HttpAttempt ==
    /\ gw_pc = "post"
    /\ \E o \in Outcomes :
        LET a == AfterAttempt(o) IN
        /\ gw_attempts' = gw_attempts + 1
        /\ gw_seen' = gw_seen \cup {o}
        /\ gw_last' = o
        /\ gw_pc' = a.pc
        /\ gw_result' = a.result
        /\ gw_sleeps' = gw_sleeps + a.sleep
        /\ gw_delays' = IF a.sleep = 1 THEN Append(gw_delays, Delay(gw_attempt)) ELSE gw_delays
    /\ UNCHANGED <<gw_stage, gw_attempt, ep_vars, rc_vars, url_vars, up_vars, tp_vars, ex_vars, lk_vars>>

\* off by one: the loop bound is taken inclusively
LoopContinuesInclusive(attempt) == attempt + 1 <= max_retries

\* the loop runs over twice as many attempts
LoopContinuesDoubled(attempt) == attempt + 1 < 2 * max_retries

\* the loop goes on while range(max_retries) has a next value
LoopContinues(attempt) == attempt + 1 < max_retries

\* asyncio.sleep returns: next iteration, or the loop is exhausted
\* asyncio.sleep never returns
BackoffNeverWakes ==
    /\ gw_pc = "sleep"
    /\ FALSE
    /\ UNCHANGED vars

BackoffDone ==
    /\ gw_pc = "sleep"
    /\ IF LoopContinues(gw_attempt)
       THEN /\ gw_attempt' = gw_attempt + 1
            /\ gw_pc' = "post"
            /\ gw_result' = gw_result
       ELSE /\ gw_attempt' = gw_attempt
            /\ gw_pc' = "returned"
            /\ gw_result' = GenericFailure
    /\ UNCHANGED <<gw_stage, gw_attempts, gw_sleeps, gw_delays, gw_seen, gw_last, ep_vars, rc_vars, url_vars, up_vars, tp_vars, ex_vars, lk_vars>>

GwFinished == gw_pc \in {"returned", "raised"}
-----------------------------------------------------------------------------
(* JSON values the model's text can parse to *)

Absent == [t |-> "absent"]
Null == [t |-> "null"]
Str(s) == [t |-> "str", s |-> s]
List(l) == [t |-> "list", l |-> l]
Dict(line) == [t |-> "dict", contactLine |-> line, rest |-> "name, location"]

\* the resume object: the keys the handler reads or writes; body stands for
\* professionalSummary, experience, projects and education
EmptyObject ==
    [contactInfo |-> Absent, skills |-> Absent, skills_visible |-> Absent,
     skills_invisible |-> Absent, body |-> "absent"]

ResumeObject(ci, sk, body) ==
    [contactInfo |-> ci, skills |-> sk, skills_visible |-> Absent,
     skills_invisible |-> Absent, body |-> body]

\* the emptiness test is missing
IsEmptyObjectNever(o) == FALSE

\* `not resume_object`: the empty dict
IsEmptyObject(o) == o = EmptyObject

\* keywords a job description yields
KwPool == {<<"a">>, <<"A">>, <<"b">>}

\* at most this many tiers of a report are non-empty
MaxReportKw == 2

TierPool == {<<>>} \cup {<<k>> : k \in KwPool}

NoKeywords ==
    [kw |-> "absent", hard_skills |-> <<>>, soft_skills |-> <<>>, tools |-> <<>>,
     domain_phrases |-> <<>>]

Reports ==
    {NoKeywords, [NoKeywords EXCEPT !.kw = "nondict"]} \cup
    {r \in [kw : {"dict"}, hard_skills : TierPool, soft_skills : TierPool,
            tools : TierPool, domain_phrases : TierPool] :
        Cardinality({f \in {"hard_skills", "soft_skills", "tools", "domain_phrases"} :
                        r[f] # <<>>}) <= MaxReportKw}

\* skills strings and contact lines a model may write
SkillStrPool == {<<>>, <<"A">>, <<"b", ",", " ", "a">>}

SkillsPool == {Absent, Null, List(<<>>), List(<<<<"a">>>>)} \cup {Str(s) : s \in SkillStrPool}

ContactPool == {Absent, Null, Dict(Absent), Dict(Str(<<"linkedin.com">>))}

DraftObjects == {EmptyObject} \cup {ResumeObject(ci, sk, "D") : ci \in ContactPool, sk \in SkillsPool}

QAObjects == {EmptyObject} \cup {ResumeObject(ci, sk, "Q") : ci \in ContactPool, sk \in SkillsPool}

\* the "missing_keywords" value of the Verify answer; Nums is a list of numbers
Nums == [t |-> "nums"]

MissingPool == {Absent, Null, Nums, Str(<<"b">>)} \cup {List(l) : l \in TierPool}

\* What json.loads makes of the cleaned text of each stage: a JSONDecodeError
\* ("nonjson"), a value that is no object ("nonobj"), or an object.
AnalysisTexts ==
    {[k |-> "nonjson"], [k |-> "nonobj"]} \cup {[k |-> "obj", report |-> r] : r \in Reports}

VerifyTexts ==
    {[k |-> "nonjson"], [k |-> "nonobj"]} \cup
    {[k |-> "obj", missing_keywords |-> m] : m \in MissingPool}

\* ro: llm_data_draft["transformedResume"]["resumeObject"], or why there is none
TransformTexts ==
    {[k |-> "nonjson"], [k |-> "nonobj"], [k |-> "obj", ro |-> "absent"],
     [k |-> "obj", ro |-> "nondict"]} \cup
    {[k |-> "obj", ro |-> "dict", resumeObject |-> o] : o \in DraftObjects}

QATexts ==
    {[k |-> "nonjson"], [k |-> "nonobj"]} \cup {[k |-> "obj", resumeObject |-> o] : o \in QAObjects}

\* the text that `.get('text', '{}')` yields when the envelope has no text
DefaultText(stage) ==
    CASE stage = "analyze" -> [k |-> "obj", report |-> NoKeywords]
      [] stage = "verify" -> [k |-> "obj", missing_keywords |-> Absent]
      [] stage = "transform" -> [k |-> "obj", ro |-> "absent"]
      [] stage = "final_qa" -> [k |-> "obj", resumeObject |-> EmptyObject]

Texts(stage) ==
    CASE stage = "analyze" -> AnalysisTexts
      [] stage = "verify" -> VerifyTexts
      [] stage = "transform" -> TransformTexts
      [] stage = "final_qa" -> QATexts

\* The JSON body of a 2xx answer: no dict, a dict whose candidates list is empty,
\* a dict without candidate text, or a dict with the model's text.
Envelopes(stage) ==
    {[shape |-> "nondict"], [shape |-> "nocand"], [shape |-> "notext"]} \cup
    {[shape |-> "text", text |-> t] : t \in Texts(stage)}

\* api_response.get('candidates', [{}])[0]...get('text', '{}'), the fence and
\* brace clean-up and json.loads, inside the try of a stage:
\*   "value"     json.loads returned env's value
\*   "caught"    an exception the except clause names was raised and handled
\*   "escaped"   an exception left the handler of the stage
\* An empty candidates list raises IndexError before the text variable is
\* bound; the except clause then reads that variable and raises
\* UnboundLocalError.  A body that is no dict raises AttributeError on .get.
ReadText(stage, env) ==
    IF env.shape = "nondict" THEN [how |-> "escaped"]
    ELSE IF env.shape = "nocand" THEN [how |-> "escaped"]
    ELSE LET t == IF env.shape = "notext" THEN DefaultText(stage) ELSE env.text
         IN  IF t.k = "nonjson" THEN [how |-> "caught"]
             ELSE [how |-> "value", text |-> t]
-----------------------------------------------------------------------------
(* The Python-only steps as functions *)

HTTP == <<"http://">>
HTTPS == <<"https://">>

\* enforce_absolute_urls on a non-null contact line
enforce_absolute_urls(contact_line) ==
    IF contact_line = <<>> THEN <<>>
    ELSE
    LET l1 == Replace(contact_line, HTTP, HTTPS)
        l2 == Replace(l1, HTTPS \o HTTPS, HTTPS)
        l3 == IF Contains(l2, <<"linkedin.com">>) /\ ~Contains(l2, HTTPS \o <<"linkedin.com">>)
              THEN Replace(l2, <<"linkedin.com">>, HTTPS \o <<"linkedin.com">>)
              ELSE l2
        l4 == IF Contains(l3, <<"github.com">>) /\ ~Contains(l3, HTTPS \o <<"github.com">>)
              THEN Replace(l3, <<"github.com">>, HTTPS \o <<"github.com">>)
              ELSE l3
        l5 == IF Contains(l4, <<"netlify.app">>) /\ ~Contains(l4, HTTPS)
              THEN Replace(l4, <<"ayaanahmad-portfolio.", "netlify.app">>,
                           HTTPS \o <<"ayaanahmad-portfolio.", "netlify.app">>)
              ELSE l4
    IN  Replace(l5, HTTPS \o HTTPS, HTTPS)

\* [skill.strip() for skill in s.split(',')]
StripAll(l) == [i \in 1..Len(l) |-> Strip(l[i])]

\* {skill.lower().strip() for skill in l if skill}
LowerSet(l) == {Strip(Lower(x)) : x \in {y \in Range(l) : y # <<>>}}

\* jd_skills_set - resume_skills_set
MissingSkills(S, K) == LowerSet(K) \ LowerSet(StripAll(Split(S)))

\* [skill for skill in set(K) if skill and skill.lower().strip() in missing_skills]
OriginalCaseMissing(S, K) ==
    {k \in Range(K) : k # <<>> /\ Strip(Lower(k)) \in MissingSkills(S, K)}

\* the skills string after the brute-force keyword append
ReconcileSkills(S, K) ==
    IF MissingSkills(S, K) # {}
    THEN Join(Sorted({x \in Range(StripAll(Split(S))) \cup OriginalCaseMissing(S, K) : x # <<>>}))
    ELSE S

\* a statement inside the try of step 6 raises: the master list cannot be
\* iterated, or the skills value has no split method
KeywordAppendRaises(o, master) == master.t # "list" \/ o.skills.t \notin {"absent", "str"}

\* the step builds a new object that holds the skills only
KeywordAppendRebuilds(o, master) ==
    IF KeywordAppendRaises(o, master) THEN o
    ELSE LET S == IF o.skills.t = "absent" THEN <<>> ELSE o.skills.s
         IN  IF MissingSkills(S, master.l) # {}
             THEN [EmptyObject EXCEPT !.skills = Str(ReconcileSkills(S, master.l))]
             ELSE o

\* step 6 on the resume object; an exception inside the try leaves it as it is
KeywordAppend(o, master) ==
    IF KeywordAppendRaises(o, master) THEN o
    ELSE LET S == IF o.skills.t = "absent" THEN <<>> ELSE o.skills.s
         IN  IF MissingSkills(S, master.l) # {}
             THEN [o EXCEPT !.skills = Str(ReconcileSkills(S, master.l))]
             ELSE o

\* [skill.strip() for skill in l if skill.strip()]
StripNonEmpty(l) == Filter(StripAll(l), Range(StripAll(l)) \ {<<>>})

\* every tier of the report counts as visible
VisibleSetAllTiers(report) ==
    {Lower(x) : x \in Range(StripNonEmpty(report.hard_skills) \o StripNonEmpty(report.soft_skills)
                                \o StripNonEmpty(report.tools)
                                \o StripNonEmpty(report.domain_phrases))}

\* {skill.lower() for skill in hard_skills + soft_skills}
VisibleSet(report) ==
    {Lower(x) : x \in Range(StripNonEmpty(report.hard_skills) \o StripNonEmpty(report.soft_skills))}

\* the match against the visible set is made without lower-casing the skill
VisibleSkillsCaseSensitive(S, report) ==
    LET all == StripNonEmpty(Split(S))
    IN  Filter(all, {x \in Range(all) : x \in VisibleSet(report)})

\* visible_skills: the skills whose lower-cased form is in visible_set
VisibleSkills(S, report) ==
    LET all == StripNonEmpty(Split(S))
    IN  Filter(all, {x \in Range(all) : Lower(x) \in VisibleSet(report)})

InvisibleSkills(S, report) ==
    LET all == StripNonEmpty(Split(S))
    IN  Filter(all, {x \in Range(all) : Lower(x) \notin VisibleSet(report)})

\* a non-empty list is taken for a skills value without skills
PartitionNeverRaises(o) == FALSE

\* a statement inside the try of step 7 raises: the skills value is truthy
\* and has no split method
PartitionRaises(o) == o.skills.t = "list" /\ o.skills.l # <<>>

\* the old key is never deleted
PartitionSkillsKeepsKey(o, report) ==
    LET sk == o.skills IN
    IF sk.t = "str" /\ sk.s # <<>>
    THEN [o EXCEPT !.skills_visible = Str(Join(VisibleSkills(sk.s, report))),
                   !.skills_invisible = Str(Join(InvisibleSkills(sk.s, report)))]
    ELSE [o EXCEPT !.skills_visible = Str(<<>>), !.skills_invisible = Str(<<>>)]

\* step 7 on the resume object, the except branch included
PartitionSkills(o, report) ==
    LET sk == o.skills IN
    IF PartitionRaises(o)
    THEN [o EXCEPT !.skills_visible = sk, !.skills_invisible = Str(<<>>), !.skills = Absent]
    ELSE IF sk.t = "str" /\ sk.s # <<>>
    THEN [o EXCEPT !.skills_visible = Str(Join(VisibleSkills(sk.s, report))),
                   !.skills_invisible = Str(Join(InvisibleSkills(sk.s, report))),
                   !.skills = Absent]
    ELSE [o EXCEPT !.skills_visible = Str(<<>>), !.skills_invisible = Str(<<>>),
                   !.skills = Absent]

\* jd_all_skills_set_call1
JdAllSkillsSet(report) ==
    Sorted({x \in Range(report.hard_skills \o report.tools \o report.domain_phrases
                        \o report.soft_skills) : x # <<>>})

\* master_keyword_list = sorted(list(set(jd_all_skills_set_call1 + missing_keywords)))
MasterKeywordList(report, missing) ==
    List(Sorted(Range(JdAllSkillsSet(report)) \cup Range(missing)))
-----------------------------------------------------------------------------
(* transform_resume_endpoint *)

Pending == [status |-> 0, detail |-> "", error |-> ""]

\* raise HTTPException(status_code, detail)
HTTPException(status, detail, error) == [status |-> status, detail |-> detail, error |-> error]

\* an exception no handler of the endpoint catches: the server answers 500
Unhandled == [status |-> 500, detail |-> "Internal Server Error", error |-> ""]

Document == [status |-> 200, detail |-> "docx", error |-> ""]

NoReport == [kw |-> "none", hard_skills |-> <<>>, soft_skills |-> <<>>, tools |-> <<>>,
             domain_phrases |-> <<>>]
NoObject == [EmptyObject EXCEPT !.body = "none"]
NoMaster == [t |-> "none"]
NoStage == [stage |-> "none", how |-> "none"]

\* Verify and Transform change places
NextCallSwapped(stage) ==
    CASE stage = "analyze" -> "transform"
      [] stage = "transform" -> "verify"
      [] stage = "verify" -> "final_qa"

\* the gateway call whose call site follows that of stage
NextCall(stage) ==
    CASE stage = "analyze" -> "verify"
      [] stage = "verify" -> "transform"
      [] stage = "transform" -> "final_qa"

\* the body of the 2xx answer is read when the stage parses it
Bodies(stage) ==
    IF gw_result.kind = "envelope" THEN Envelopes(stage) ELSE {[shape |-> "none"]}

\* the request ends with answer r
Finish(r) ==
    /\ pc' = "done"
    /\ response' = r
    /\ GwReset

\* The branch a stage took on the gateway's result, as its log lines name it:
\*   "ok"              the text parsed to a value of the expected shape
\*   "api_error"       the gateway returned a dict with the key "error"
\*   "gateway_raised"  call_gemini_api raised
\*   "bad_envelope"    the body is no dict, or its candidates list is empty
\*   "not_json"        json.loads raised JSONDecodeError
\*   "wrong_shape"     the text parsed, to a value of another shape
\*   "no_resume_object" transformedResume.resumeObject is missing or empty

\* a JSONDecodeError at Analyze is handled as at Verify: log and go on
AnalyzeResultNonFatal(result, env) ==
    IF result.kind = "exception"
    THEN [ok |-> FALSE, how |-> "gateway_raised", answer |-> Unhandled]
    ELSE IF HasErrorKey(result)
    THEN [ok |-> FALSE, how |-> "api_error",
          answer |-> HTTPException(500, "Gemini API Error (JD Analysis)", result.error)]
    ELSE LET r == ReadText("analyze", env) IN
         IF r.how = "escaped" THEN [ok |-> FALSE, how |-> "bad_envelope", answer |-> Unhandled]
         ELSE IF r.how = "caught" THEN [ok |-> TRUE, how |-> "not_json", report |-> NoKeywords]
         ELSE IF r.text.k = "nonobj"
         THEN [ok |-> FALSE, how |-> "wrong_shape", answer |-> Unhandled]
         ELSE IF r.text.report.kw = "nondict"
         THEN [ok |-> FALSE, how |-> "wrong_shape", answer |-> Unhandled]
         ELSE [ok |-> TRUE, how |-> "ok", report |-> r.text.report]

\* lines 1538-1575: the Analyze result is an answer (the request ends) or a report
AnalyzeResult(result, env) ==
    IF result.kind = "exception"
    THEN [ok |-> FALSE, how |-> "gateway_raised", answer |-> Unhandled]
    ELSE IF HasErrorKey(result)
    THEN [ok |-> FALSE, how |-> "api_error",
          answer |-> HTTPException(500, "Gemini API Error (JD Analysis)", result.error)]
    ELSE LET r == ReadText("analyze", env) IN
         IF r.how = "escaped" THEN [ok |-> FALSE, how |-> "bad_envelope", answer |-> Unhandled]
         ELSE IF r.how = "caught"
         THEN [ok |-> FALSE, how |-> "not_json",
               answer |-> HTTPException(500, "Failed to parse JD Analysis from the AI. The response may be invalid.", "")]
         ELSE IF r.text.k = "nonobj"
         THEN [ok |-> FALSE, how |-> "wrong_shape", answer |-> Unhandled]
         ELSE IF r.text.report.kw = "nondict"
         THEN [ok |-> FALSE, how |-> "wrong_shape", answer |-> Unhandled]
         ELSE [ok |-> TRUE, how |-> "ok", report |-> r.text.report]

\* lines 1606-1637: the request is aborted by an uncaught exception, or the
\* master keyword list is built
VerifyResult(result, env, report) ==
    IF result.kind = "exception" THEN [ok |-> FALSE, how |-> "gateway_raised"]
    ELSE IF HasErrorKey(result)
    THEN [ok |-> TRUE, how |-> "api_error", master |-> MasterKeywordList(report, <<>>)]
    ELSE LET r == ReadText("verify", env) IN
         IF r.how = "escaped" THEN [ok |-> FALSE, how |-> "bad_envelope"]
         ELSE IF r.how = "caught"
         THEN [ok |-> TRUE, how |-> "not_json", master |-> MasterKeywordList(report, <<>>)]
         ELSE IF r.text.k = "nonobj" THEN [ok |-> FALSE, how |-> "wrong_shape"]
         ELSE LET m == r.text.missing_keywords IN
              IF m.t = "absent"
              THEN [ok |-> TRUE, how |-> "ok", master |-> MasterKeywordList(report, <<>>)]
              ELSE IF m.t = "list"
              THEN [ok |-> TRUE, how |-> "ok", master |-> MasterKeywordList(report, m.l)]
              ELSE IF m.t = "nums" /\ JdAllSkillsSet(report) = <<>>
              THEN [ok |-> TRUE, how |-> "wrong_shape", master |-> Nums]
              ELSE [ok |-> FALSE, how |-> "wrong_shape"]

\* lines 1664-1707: an answer, or the draft resume object
TransformResult(result, env) ==
    LET parse_failed == HTTPException(500, "Failed to parse the transformed resume from the AI. The response may be invalid.", "")
    IN
    IF result.kind = "exception"
    THEN [ok |-> FALSE, how |-> "gateway_raised", answer |-> Unhandled]
    ELSE IF HasErrorKey(result)
    THEN [ok |-> FALSE, how |-> "api_error",
          answer |-> HTTPException(500, "Gemini API Error (Transform)", result.error)]
    ELSE LET r == ReadText("transform", env) IN
         IF r.how = "escaped" THEN [ok |-> FALSE, how |-> "bad_envelope", answer |-> Unhandled]
         ELSE IF r.how = "caught" THEN [ok |-> FALSE, how |-> "not_json", answer |-> parse_failed]
         ELSE IF r.text.k = "nonobj"
         THEN [ok |-> FALSE, how |-> "wrong_shape", answer |-> Unhandled]
         ELSE IF r.text.ro = "absent"
         THEN [ok |-> FALSE, how |-> "no_resume_object", answer |-> parse_failed]
         ELSE IF r.text.ro = "nondict"
         THEN [ok |-> FALSE, how |-> "wrong_shape", answer |-> Unhandled]
         ELSE IF IsEmptyObject(r.text.resumeObject)
         THEN [ok |-> FALSE, how |-> "no_resume_object", answer |-> parse_failed]
         ELSE IF r.text.resumeObject.contactInfo.t = "null"
         THEN [ok |-> FALSE, how |-> "wrong_shape", answer |-> Unhandled]
         ELSE [ok |-> TRUE, how |-> "ok", draft |-> r.text.resumeObject]

\* [x for x in l if not (x in seen or seen.add(x))]: the first occurrence of
\* each element, in order
RECURSIVE UniqueInOrder(_)
UniqueInOrder(l) ==
    IF l = <<>> THEN <<>>
    ELSE LET init == UniqueInOrder(SubSeq(l, 1, Len(l) - 1))
         IN  IF l[Len(l)] \in Range(init) THEN init ELSE Append(init, l[Len(l)])

\* the keywords put into the Final QA prompt (lines 1713-1720): the four tiers
\* of the analysis report
JdAllSkillsList(report) ==
    UniqueInOrder(report.hard_skills \o report.tools \o report.domain_phrases
                  \o report.soft_skills)

\* jd_all_skills_str = ", ".join(jd_all_skills_list_unique)
JdAllSkillsStr(report) == Join(JdAllSkillsList(report))

\* lines 1724-1744: str.replace raises TypeError unless the draft's skills is a str
QAPromptBuilds(draft) == draft.skills.t \in {"absent", "str"}

\* the parsed QA object is merged over the draft instead of replacing it
QAResultMerges(result, env, draft) ==
    IF result.kind = "exception" THEN [ok |-> FALSE, how |-> "gateway_raised"]
    ELSE IF HasErrorKey(result) THEN [ok |-> TRUE, how |-> "api_error", final |-> draft]
    ELSE LET r == ReadText("final_qa", env) IN
         IF r.how = "escaped" THEN [ok |-> FALSE, how |-> "bad_envelope"]
         ELSE IF r.how = "caught" THEN [ok |-> TRUE, how |-> "not_json", final |-> draft]
         ELSE IF r.text.k = "nonobj" THEN [ok |-> FALSE, how |-> "wrong_shape"]
         ELSE IF r.text.resumeObject.skills.t = "null" THEN [ok |-> FALSE, how |-> "wrong_shape"]
         ELSE LET o == r.text.resumeObject IN
              [ok |-> TRUE, how |-> "ok",
               final |-> [o EXCEPT
                   !.contactInfo = IF o.contactInfo.t = "absent" THEN draft.contactInfo ELSE @,
                   !.skills = IF o.skills.t = "absent" THEN draft.skills ELSE @,
                   !.body = IF o.body = "absent" THEN draft.body ELSE @]]

\* lines 1760-1796: the request is aborted, or the final resume object is chosen
QAResult(result, env, draft) ==
    IF result.kind = "exception" THEN [ok |-> FALSE, how |-> "gateway_raised"]
    ELSE IF HasErrorKey(result) THEN [ok |-> TRUE, how |-> "api_error", final |-> draft]
    ELSE LET r == ReadText("final_qa", env) IN
         IF r.how = "escaped" THEN [ok |-> FALSE, how |-> "bad_envelope"]
         ELSE IF r.how = "caught" THEN [ok |-> TRUE, how |-> "not_json", final |-> draft]
         ELSE IF r.text.k = "nonobj" THEN [ok |-> FALSE, how |-> "wrong_shape"]
         ELSE IF r.text.resumeObject.skills.t = "null" THEN [ok |-> FALSE, how |-> "wrong_shape"]
         ELSE [ok |-> TRUE, how |-> "ok", final |-> r.text.resumeObject]

\* at most this many pages in an uploaded document
MaxPages == 2

\* an uploaded document as parse_resume_pdf sees it: the text of each page,
\* and whether fitz raises while the document is opened or read
PageTexts == {<<>>, <<"r">>}
Documents == [pages : UNION {[1..n -> PageTexts] : n \in 0..MaxPages}, throws : BOOLEAN]

\* str.strip() of the text of a document: blanks and newlines
RECURSIVE StripText(_)
StripText(s) ==
    IF s = <<>> THEN <<>>
    ELSE IF Head(s) \in {" ", "\n"} THEN StripText(Tail(s))
    ELSE IF s[Len(s)] \in {" ", "\n"} THEN StripText(SubSeq(s, 1, Len(s) - 1))
    ELSE s

\* full_text: every page's text followed by a newline
RECURSIVE FullText(_)
FullText(pages) ==
    IF pages = <<>> THEN <<>> ELSE Head(pages) \o <<"\n">> \o FullText(Tail(pages))

\* the exception is not caught: it reaches the caller
parse_resume_pdf_raises(doc) ==
    IF doc.throws THEN [t |-> "raised"] ELSE Str(StripText(FullText(doc.pages)))

\* parse_resume_pdf: None when anything raised, else the stripped text
parse_resume_pdf(doc) ==
    IF doc.throws THEN Null ELSE Str(StripText(FullText(doc.pages)))

\* what was uploaded (lines 1491-1518): a document with text, one without
\* pages, one whose pages have no text, one on which extraction throws, or
\* an upload that cannot be saved
Uploads == {"text", "no_pages", "no_text", "parse_raised", "io_error"}

UploadKind(doc, io) ==
    IF io THEN "io_error"
    ELSE IF doc.throws THEN "parse_raised"
    ELSE IF doc.pages = <<>> THEN "no_pages"
    ELSE IF StripText(FullText(doc.pages)) = <<>> THEN "no_text"
    ELSE "text"

\* how the upload block ends: "go" with the text, or the HTTPException raised
UploadResult(doc, io) ==
    LET t == parse_resume_pdf(doc) IN
    IF io \/ t.t = "raised" THEN HTTPException(500, "Error processing file", "")
    ELSE IF t.t = "null" \/ t.s = <<>>
    THEN HTTPException(400, "Could not parse the provided PDF.", "")
    ELSE Pending

\* lines 1490-1536: save and parse the upload, then issue call 1
ParseUpload ==
    /\ pc = "start"
    /\ \E doc \in Documents, io \in BOOLEAN :
        /\ last' = [stage |-> "upload", how |-> UploadKind(doc, io)]
        /\ IF UploadResult(doc, io) = Pending
           THEN /\ pc' = "call1"
                /\ calls' = Append(calls, "analyze")
                /\ GwStart("analyze")
                /\ UNCHANGED response
           ELSE /\ Finish(UploadResult(doc, io))
                /\ UNCHANGED calls
    /\ UNCHANGED <<jd_analysis_report, master_keyword_list, resume_object_draft,
                   final_resume_object, ran, jd_all_skills_str,
                   rc_vars, url_vars, up_vars, tp_vars, ex_vars, lk_vars>>

\* lines 1536-1604: call 1 returned; parse the report and issue call 1.5
AnalyzeReturn ==
    /\ pc = "call1" /\ GwFinished
    /\ \E env \in Bodies("analyze") :
        LET a == AnalyzeResult(gw_result, env) IN
        /\ last' = [stage |-> "analyze", how |-> a.how]
        /\ IF a.ok
           THEN /\ jd_analysis_report' = a.report
                /\ pc' = "call1_5"
                /\ calls' = Append(calls, NextCall("analyze"))
                /\ GwStart(NextCall("analyze"))
                /\ UNCHANGED response
           ELSE /\ Finish(a.answer)
                /\ UNCHANGED <<jd_analysis_report, calls>>
    /\ UNCHANGED <<master_keyword_list, resume_object_draft, final_resume_object, ran, jd_all_skills_str,
                   rc_vars, url_vars, up_vars, tp_vars, ex_vars, lk_vars>>

\* lines 1604-1662: call 1.5 returned; build the master list and issue call 2
VerifyReturn ==
    /\ pc = "call1_5" /\ GwFinished
    /\ \E env \in Bodies("verify") :
        LET v == VerifyResult(gw_result, env, jd_analysis_report) IN
        /\ last' = [stage |-> "verify", how |-> v.how]
        /\ IF v.ok
           THEN /\ master_keyword_list' = v.master
                /\ pc' = "call2"
                /\ calls' = Append(calls, NextCall("verify"))
                /\ GwStart(NextCall("verify"))
                /\ UNCHANGED response
           ELSE /\ Finish(Unhandled)
                /\ UNCHANGED <<master_keyword_list, calls>>
    /\ UNCHANGED <<jd_analysis_report, resume_object_draft, final_resume_object, ran, jd_all_skills_str,
                   rc_vars, url_vars, up_vars, tp_vars, ex_vars, lk_vars>>

\* lines 1662-1758: call 2 returned; parse the draft, build the QA prompt and
\* issue call 3
TransformReturn ==
    /\ pc = "call2" /\ GwFinished
    /\ \E env \in Bodies("transform") :
        LET t == TransformResult(gw_result, env) IN
        /\ last' = [stage |-> "transform", how |-> t.how]
        /\ IF ~t.ok
           THEN /\ Finish(t.answer)
                /\ UNCHANGED <<resume_object_draft, calls, jd_all_skills_str>>
           ELSE /\ resume_object_draft' = t.draft
                /\ IF QAPromptBuilds(t.draft)
                   THEN /\ pc' = "call3"
                        /\ jd_all_skills_str' = JdAllSkillsStr(jd_analysis_report)
                        /\ calls' = Append(calls, NextCall("transform"))
                        /\ GwStart(NextCall("transform"))
                        /\ UNCHANGED response
                   ELSE /\ Finish(Unhandled)
                        /\ UNCHANGED <<calls, jd_all_skills_str>>
    /\ UNCHANGED <<jd_analysis_report, master_keyword_list, final_resume_object, ran, rc_vars, url_vars, up_vars, tp_vars, ex_vars, lk_vars>>

\* lines 1758-1796: call 3 returned; the final resume object is the QA answer or
\* the draft
QAReturn ==
    /\ pc = "call3" /\ GwFinished
    /\ \E env \in Bodies("final_qa") :
        LET q == QAResult(gw_result, env, resume_object_draft) IN
        /\ last' = [stage |-> "final_qa", how |-> q.how]
        /\ IF q.ok
           THEN /\ final_resume_object' = q.final
                /\ pc' = "cleanup"
                /\ GwReset
                /\ UNCHANGED response
           ELSE /\ Finish(Unhandled)
                /\ UNCHANGED final_resume_object
    /\ UNCHANGED <<jd_analysis_report, master_keyword_list, resume_object_draft, calls, ran,
                   jd_all_skills_str,
                   rc_vars, url_vars, up_vars, tp_vars, ex_vars, lk_vars>>

\* lines 1802-1810: `'contactLine' in None` raises TypeError; a null line
\* becomes ""
LinkNormalize ==
    /\ pc = "cleanup"
    /\ LET ci == final_resume_object.contactInfo IN
       IF ci.t = "null"
       THEN /\ Finish(Unhandled)
            /\ UNCHANGED <<final_resume_object, ran>>
       ELSE /\ IF ci.t = "dict" /\ ci.contactLine.t # "absent"
               THEN /\ final_resume_object' =
                         [final_resume_object EXCEPT !.contactInfo.contactLine =
                             Str(IF ci.contactLine.t = "null" THEN <<>>
                                 ELSE enforce_absolute_urls(ci.contactLine.s))]
                    /\ ran' = Append(ran, "link_normalizer")
               ELSE UNCHANGED <<final_resume_object, ran>>
            /\ pc' = "reconcile"
            /\ UNCHANGED <<response, gw_vars>>
    /\ UNCHANGED <<jd_analysis_report, master_keyword_list, resume_object_draft, calls,
                   last, jd_all_skills_str,
                   rc_vars, url_vars, up_vars, tp_vars, ex_vars, lk_vars>>

\* lines 1812-1852
\* the except clause of step 6 is missing: an error inside it ends the request
KeywordAppendStepFatal ==
    /\ pc = "reconcile"
    /\ ran' = Append(ran, "keyword_reconciler")
    /\ IF KeywordAppendRaises(final_resume_object, master_keyword_list)
       THEN /\ Finish(Unhandled)
            /\ UNCHANGED final_resume_object
       ELSE /\ final_resume_object' = KeywordAppend(final_resume_object, master_keyword_list)
            /\ pc' = "partition"
            /\ UNCHANGED <<response, gw_vars>>
    /\ UNCHANGED <<jd_analysis_report, master_keyword_list, resume_object_draft, calls,
                   last, jd_all_skills_str, rc_vars, url_vars, up_vars, tp_vars, ex_vars, lk_vars>>

KeywordAppendStep ==
    /\ pc = "reconcile"
    /\ final_resume_object' = KeywordAppend(final_resume_object, master_keyword_list)
    /\ ran' = Append(ran, "keyword_reconciler")
    /\ pc' = "partition"
    /\ UNCHANGED <<jd_analysis_report, master_keyword_list, resume_object_draft, calls,
                   response, last, gw_vars, jd_all_skills_str,
                   rc_vars, url_vars, up_vars, tp_vars, ex_vars, lk_vars>>

\* lines 1854-1906
PartitionStep ==
    /\ pc = "partition"
    /\ final_resume_object' = PartitionSkills(final_resume_object, jd_analysis_report)
    /\ ran' = Append(ran, "skill_partitioner")
    /\ pc' = "render"
    /\ UNCHANGED <<jd_analysis_report, master_keyword_list, resume_object_draft, calls,
                   response, last, gw_vars, jd_all_skills_str,
                   rc_vars, url_vars, up_vars, tp_vars, ex_vars, lk_vars>>

\* create_docx and create_pdf call .replace on skills_visible: a list raises
Renderable(o) == o.skills_visible.t # "list"

\* lines 1908-1936: the renderer is handed final_resume_object; any exception
\* of it is answered with 500
Render ==
    /\ pc = "render"
    /\ ran' = Append(ran, "renderer")
    /\ \E fits \in BOOLEAN :
        response' = IF fits /\ Renderable(final_resume_object)
                    THEN Document
                    ELSE HTTPException(500, "Failed to generate output documents", "")
    /\ pc' = "done"
    /\ UNCHANGED <<jd_analysis_report, master_keyword_list, resume_object_draft,
                   final_resume_object, calls, last, gw_vars, jd_all_skills_str,
                   rc_vars, url_vars, up_vars, tp_vars, ex_vars, lk_vars>>

EndpointIdle ==
    /\ pc = "none" /\ calls = <<>> /\ jd_analysis_report = NoReport
    /\ master_keyword_list = NoMaster /\ resume_object_draft = NoObject
    /\ final_resume_object = NoObject /\ ran = <<>> /\ response = Pending
    /\ last = NoStage /\ jd_all_skills_str = <<>>

ReconIdle == rc_pc = "none" /\ rc_K = <<>> /\ rc_S = <<>> /\ rc_out = <<>>

UrlIdle == url_pc = "none" /\ url_in = <<>> /\ url_out = <<>>

NotSent == [given |-> FALSE, v |-> 0]

NoPrompt == [weeks |-> <<>>, multiplier |-> <<>>]

PromptIdle == tp_pc = "none" /\ tp_weeks = NotSent /\ tp_multiplier = NotSent /\ tp_prompt = NoPrompt

NotParsed == [k |-> "none"]

\* no text is being parsed and no links are being collected
ExtractIdle ==
    /\ ex_pc = "none" /\ ex_stage = "none" /\ ex_pre = <<>> /\ ex_obj = <<>> /\ ex_post = <<>>
    /\ ex_out = NotParsed

LinksIdle == lk_pc = "none" /\ lk_annots = <<>> /\ lk_plain = <<>> /\ lk_details = <<>>

UploadIdle ==
    /\ up_pc = <<>> /\ up_name = <<>> /\ up_fs = <<>> /\ up_text = <<>> /\ up_status = <<>>

\* one request, from the upload to its answer
Init ==
    /\ GwIdle
    /\ pc = "start" /\ calls = <<>> /\ jd_analysis_report = NoReport
    /\ master_keyword_list = NoMaster /\ resume_object_draft = NoObject
    /\ final_resume_object = NoObject /\ ran = <<>> /\ response = Pending
    /\ last = NoStage /\ jd_all_skills_str = <<>>
    /\ ReconIdle
    /\ UrlIdle
    /\ UploadIdle
    /\ PromptIdle
    /\ ExtractIdle
    /\ LinksIdle

Next ==
    \/ ParseUpload
    \/ HttpAttempt
    \/ BackoffDone
    \/ AnalyzeReturn
    \/ VerifyReturn
    \/ TransformReturn
    \/ QAReturn
    \/ LinkNormalize
    \/ KeywordAppendStep
    \/ PartitionStep
    \/ Render

Spec == Init /\ [][Next]_vars

\* The payloads followed in the termination check: a report without and one
\* with keywords, and resume objects whose contactInfo is absent, null or a
\* dict and whose skills is absent, a string or a list - one for each branch
\* the handler takes on them.
LiveReports ==
    {NoReport, NoKeywords,
     [kw |-> "dict", hard_skills |-> <<<<"a">>>>, soft_skills |-> <<>>, tools |-> <<>>,
      domain_phrases |-> <<>>]}

LiveObjects ==
    {NoObject, EmptyObject} \cup
    {o \in DraftObjects \cup QAObjects :
        /\ o.contactInfo \in {Absent, Null, Dict(Str(<<"linkedin.com">>))}
        /\ o.skills \in {Absent, Str(<<"A">>), List(<<<<"a">>>>)}}

NextLive ==
    \/ ParseUpload
    \/ HttpAttempt
    \/ BackoffDone
    \/ AnalyzeReturn /\ jd_analysis_report' \in LiveReports
    \/ VerifyReturn
    \/ TransformReturn /\ resume_object_draft' \in LiveObjects
    \/ QAReturn /\ final_resume_object' \in LiveObjects
    \/ LinkNormalize
    \/ KeywordAppendStep
    \/ PartitionStep
    \/ Render

\* Every HTTP attempt ends (httpx.AsyncClient(timeout=120.0) bounds it),
\* every asyncio.sleep returns, and the handler's own code runs to its next
\* await: a request that can take a step takes one.
SpecLive == Init /\ [][NextLive]_vars /\ WF_vars(NextLive)

-----------------------------------------------------------------------------
(* One invocation of call_gemini_api on its own, from any of its call sites *)

InitGateway ==
    /\ gw_pc = "post" /\ gw_stage \in Stages /\ gw_attempt = 0 /\ gw_attempts = 0
    /\ gw_sleeps = 0 /\ gw_delays = <<>> /\ gw_seen = {} /\ gw_last = "none"
    /\ gw_result = NoResult
    /\ EndpointIdle
    /\ ReconIdle
    /\ UrlIdle
    /\ UploadIdle
    /\ PromptIdle
    /\ ExtractIdle
    /\ LinksIdle

NextGateway == HttpAttempt \/ BackoffDone

SpecGateway == InitGateway /\ [][NextGateway]_vars

-----------------------------------------------------------------------------
(* The keyword reconciliation step on its own, for any skills string and any  *)
(* master keyword list                                                        *)

MaxKw == 2
MaxKwLen == 1
MaxSkillsLen == 3

RcChars == {" ", ",", "A", "a"}

StringsUpTo(n) == UNION {[1..k -> RcChars] : k \in 0..n}

\* the master list is built by sorted(list(set(...))): distinct and sorted
MasterLists == {Sorted(ks) : ks \in {x \in SUBSET StringsUpTo(MaxKwLen) : Cardinality(x) <= MaxKw}}

InitRecon ==
    /\ GwIdle
    /\ EndpointIdle
    /\ rc_pc = "input"
    /\ rc_K \in MasterLists
    /\ rc_S \in StringsUpTo(MaxSkillsLen)
    /\ rc_out = <<>>
    /\ UrlIdle
    /\ UploadIdle
    /\ PromptIdle
    /\ ExtractIdle
    /\ LinksIdle

\* lines 1814-1848 with final_resume_object['skills'] = rc_S
ReconcileStep ==
    /\ rc_pc = "input"
    /\ rc_out' = ReconcileSkills(rc_S, rc_K)
    /\ rc_pc' = "done"
    /\ UNCHANGED <<rc_K, rc_S, gw_vars, ep_vars, url_vars, up_vars, tp_vars, ex_vars, lk_vars>>

NextRecon == ReconcileStep

SpecRecon == InitRecon /\ [][NextRecon]_vars

-----------------------------------------------------------------------------
(* enforce_absolute_urls on its own, for any contact line, applied twice *)

MaxLineLen == 5

\* what a contact line is made of: the two schemes, the known domains (the
\* portfolio host in its two parts, since the code tests for 'netlify.app'
\* alone) and other text
UrlTokens == {"http://", "https://", "linkedin.com", "github.com",
              "ayaanahmad-portfolio.", "netlify.app", "/x, "}

ContactLines == UNION {[1..k -> UrlTokens] : k \in 0..MaxLineLen}

InitUrls ==
    /\ GwIdle
    /\ EndpointIdle
    /\ ReconIdle
    /\ UploadIdle
    /\ PromptIdle
    /\ ExtractIdle
    /\ LinksIdle
    /\ url_pc = "input"
    /\ url_in \in ContactLines
    /\ url_out = <<>>

\* enforce_absolute_urls(contact_line)
NormalizeOnce ==
    /\ url_pc = "input"
    /\ url_out' = enforce_absolute_urls(url_in)
    /\ url_pc' = "once"
    /\ UNCHANGED <<url_in, gw_vars, ep_vars, rc_vars, up_vars, tp_vars, ex_vars, lk_vars>>

\* enforce_absolute_urls applied to its own result
NormalizeAgain ==
    /\ url_pc = "once"
    /\ url_out' = enforce_absolute_urls(url_out)
    /\ url_pc' = "twice"
    /\ UNCHANGED <<url_in, gw_vars, ep_vars, rc_vars, up_vars, tp_vars, ex_vars, lk_vars>>

NextUrls == NormalizeOnce \/ NormalizeAgain

SpecUrls == InitUrls /\ [][NextUrls]_vars

-----------------------------------------------------------------------------
(* The skill partitioner on its own, for any skills string the reconciler    *)
(* can leave and any analysis report that passed Analyze                     *)

PartitionInputs == UNION {[1..k -> Chars] : k \in 0..MaxSkillsLen}

\* reports as Analyze stores them, and reports whose entries carry blanks
PartitionReports ==
    {r \in Reports : r.kw # "nondict"} \cup
    {[kw |-> "dict", hard_skills |-> h, soft_skills |-> <<>>, tools |-> t, domain_phrases |-> <<>>] :
        h \in {<<<<" ", "a", " ">>>>, <<<<" ">>, <<"A", " ">>>>}, t \in TierPool}

InitPartition ==
    /\ GwIdle
    /\ UrlIdle
    /\ UploadIdle
    /\ PromptIdle
    /\ ExtractIdle
    /\ LinksIdle
    /\ rc_pc = "done" /\ rc_K = <<>> /\ rc_S \in PartitionInputs /\ rc_out = ReconcileSkills(rc_S, rc_K)
    /\ pc = "partition" /\ calls = <<>>
    /\ jd_analysis_report \in PartitionReports
    /\ master_keyword_list = List(rc_K)
    /\ resume_object_draft = NoObject
    /\ final_resume_object = ResumeObject(Absent, Str(rc_out), "Q")
    /\ ran = <<>> /\ response = Pending /\ last = NoStage /\ jd_all_skills_str = <<>>

NextPartition == PartitionStep

SpecPartition == InitPartition /\ [][NextPartition]_vars

-----------------------------------------------------------------------------
(* The upload block (lines 1491-1518) of requests served concurrently by one *)
(* event loop: a request runs until its next await, where another may run    *)

MaxRequests == 2

Requests == 1..MaxRequests

FileNames == {"cv.pdf", "resume.pdf"}

\* resume_file of a request: its filename, and whether its bytes are a PDF
\* with text
UploadFiles == [filename : FileNames, doc : {"text", "no_text"}]

\* the working directory: dir maps a temp path to the file it names (0: no
\* such path; else the request that created the file), bytes maps a file to
\* the request whose content it holds (0: empty), handle maps a request to the
\* file its out_file writes to
NoFiles ==
    [dir |-> [n \in FileNames |-> 0], bytes |-> [r \in Requests |-> 0],
     handle |-> [r \in Requests |-> 0]]

\* temp_pdf_path = f"temp_{resume_file.filename}"
temp_pdf_path(r) == up_name[r].filename

InitUpload ==
    /\ GwIdle
    /\ EndpointIdle
    /\ ReconIdle
    /\ UrlIdle
    /\ PromptIdle
    /\ ExtractIdle
    /\ LinksIdle
    /\ up_pc = [r \in Requests |-> "open"]
    /\ up_name \in [Requests -> UploadFiles]
    /\ up_fs = NoFiles
    /\ up_text = [r \in Requests |-> 0]
    /\ up_status = [r \in Requests |-> 0]

\* the finally clause is skipped
RemoveTempSkipped(fs, path) == fs

\* finally: if os.path.exists(temp_pdf_path): os.remove(temp_pdf_path)
RemoveTemp(fs, path) == [fs EXCEPT !.dir[path] = 0]

\* aiofiles.open(temp_pdf_path, 'wb'): creates the file, or truncates the
\* file the path names already
OpenTemp(r) ==
    /\ up_pc[r] = "open"
    /\ LET path == temp_pdf_path(r)
           file == IF up_fs.dir[path] = 0 THEN r ELSE up_fs.dir[path]
       IN  up_fs' = [up_fs EXCEPT !.dir[path] = file, !.bytes[file] = 0, !.handle[r] = file]
    /\ up_pc' = [up_pc EXCEPT ![r] = "read"]
    /\ UNCHANGED <<up_name, up_text, up_status, gw_vars, ep_vars, rc_vars, url_vars, tp_vars, ex_vars, lk_vars>>

\* content = await resume_file.read()
ReadUpload(r) ==
    /\ up_pc[r] = "read"
    /\ up_pc' = [up_pc EXCEPT ![r] = "write"]
    /\ UNCHANGED <<up_name, up_fs, up_text, up_status, gw_vars, ep_vars, rc_vars, url_vars, tp_vars, ex_vars, lk_vars>>

\* await out_file.write(content): the bytes reach the file now or when the
\* file is closed; a failed write raises, which `except Exception` answers
\* with 500 after the finally clause
WriteTemp(r) ==
    /\ up_pc[r] = "write"
    /\ \E how \in {"written", "buffered", "failed"} :
        CASE how = "written" ->
                /\ up_fs' = [up_fs EXCEPT !.bytes[up_fs.handle[r]] = r]
                /\ up_pc' = [up_pc EXCEPT ![r] = "close"]
                /\ UNCHANGED up_status
          [] how = "buffered" ->
                /\ up_pc' = [up_pc EXCEPT ![r] = "flush"]
                /\ UNCHANGED <<up_fs, up_status>>
          [] how = "failed" ->
                /\ up_fs' = RemoveTemp(up_fs, temp_pdf_path(r))
                /\ up_status' = [up_status EXCEPT ![r] = 500]
                /\ up_pc' = [up_pc EXCEPT ![r] = "left"]
    /\ UNCHANGED <<up_name, up_text, gw_vars, ep_vars, rc_vars, url_vars, tp_vars, ex_vars, lk_vars>>

\* what parse_resume_pdf(temp_pdf_path) returns: 0 for None or "", else the
\* request whose text it is
ParsedText(fs, path) ==
    IF fs.dir[path] = 0 THEN 0
    ELSE IF fs.bytes[fs.dir[path]] = 0 THEN 0
    ELSE IF up_name[fs.bytes[fs.dir[path]]].doc = "text" THEN fs.bytes[fs.dir[path]]
    ELSE 0

\* leaving `async with` closes the file; then, without another await, the
\* file at the path is parsed, an empty result raises the 400, and the finally
\* clause removes the path
CloseAndParse(r) ==
    /\ up_pc[r] \in {"close", "flush"}
    /\ LET closed == IF up_pc[r] = "flush"
                     THEN [up_fs EXCEPT !.bytes[up_fs.handle[r]] = r]
                     ELSE up_fs
           text == ParsedText(closed, temp_pdf_path(r))
       IN  /\ up_text' = [up_text EXCEPT ![r] = text]
           /\ up_status' = [up_status EXCEPT ![r] = IF text = 0 THEN 400 ELSE 200]
           /\ up_fs' = RemoveTemp(closed, temp_pdf_path(r))
    /\ up_pc' = [up_pc EXCEPT ![r] = "left"]
    /\ UNCHANGED <<up_name, gw_vars, ep_vars, rc_vars, url_vars, tp_vars, ex_vars, lk_vars>>

OpenTempStep == \E r \in Requests : OpenTemp(r)
ReadUploadStep == \E r \in Requests : ReadUpload(r)
WriteTempStep == \E r \in Requests : WriteTemp(r)
CloseAndParseStep == \E r \in Requests : CloseAndParse(r)

NextUpload == OpenTempStep \/ ReadUploadStep \/ WriteTempStep \/ CloseAndParseStep

SpecUpload == InitUpload /\ [][NextUpload]_vars

-----------------------------------------------------------------------------
(* The form fields time_in_weeks and ai_multiplier and the Transform prompt   *)
(* built from them (lines 1473-1474 and 1643-1651)                            *)

MaxFormInt == 6

\* an integer form field: not sent, or any integer the client sends
FormFields == {NotSent} \cup {[given |-> TRUE, v |-> n] : n \in -1..MaxFormInt}

\* Form(default=d): the value the handler's parameter is bound to
FormDefault(field, d) == IF field.given THEN field.v ELSE d

DigitChars == <<"0", "1", "2", "3", "4", "5", "6", "7", "8", "9">>

\* str(n) of an integer
RECURSIVE IntToStr(_)
IntToStr(n) ==
    IF n < 0 THEN <<"-">> \o IntToStr(0 - n)
    ELSE IF n < 10 THEN <<DigitChars[n + 1]>>
    ELSE IntToStr(n \div 10) \o <<DigitChars[(n % 10) + 1]>>

\* the two .replace calls that fill the TIME_IN_WEEKS and AI_MULTIPLIER slots
TransformPromptSlots(time_in_weeks, ai_multiplier) ==
    [weeks |-> IntToStr(time_in_weeks), multiplier |-> IntToStr(ai_multiplier)]

InitPrompt ==
    /\ GwIdle
    /\ EndpointIdle
    /\ ReconIdle
    /\ UrlIdle
    /\ UploadIdle
    /\ ExtractIdle
    /\ LinksIdle
    /\ tp_pc = "input"
    /\ tp_weeks \in FormFields
    /\ tp_multiplier \in FormFields
    /\ tp_prompt = NoPrompt

BuildTransformPrompt ==
    /\ tp_pc = "input"
    /\ tp_prompt' = TransformPromptSlots(FormDefault(tp_weeks, 2), FormDefault(tp_multiplier, 2))
    /\ tp_pc' = "built"
    /\ UNCHANGED <<tp_weeks, tp_multiplier, gw_vars, ep_vars, rc_vars, url_vars, up_vars,
                   ex_vars, lk_vars>>

NextPrompt == BuildTransformPrompt

SpecPrompt == InitPrompt /\ [][NextPrompt]_vars

-----------------------------------------------------------------------------
(* A model's text on its way to json.loads, lines 1548-1563, 1613-1622,    *)
(* 1674-1690 and 1770-1786.  A text is a sequence of tokens: the two code   *)
(* fences, the braces, a word without braces or backticks, and a blank.     *)

\* the token for the fence that opens a json code block, and for the bare fence
FENCE_JSON == "fence_json"
FENCE == "fence"

\* text.startswith(FENCE_JSON) and text[7:]
StripFenceJson(text) ==
    IF text # <<>> /\ Head(text) = FENCE_JSON THEN Tail(text) ELSE text

\* text.startswith(FENCE) and text[3:]; of the json fence the word "json" is left
StripFenceStart(text) ==
    IF text # <<>> /\ Head(text) = FENCE THEN Tail(text)
    ELSE IF text # <<>> /\ Head(text) = FENCE_JSON THEN <<"w">> \o Tail(text)
    ELSE text

\* text.endswith(FENCE) and text[:-3]
StripFenceEnd(text) ==
    IF text # <<>> /\ text[Len(text)] = FENCE THEN SubSeq(text, 1, Len(text) - 1) ELSE text

\* the fence clean-up of a stage; Final QA also strips blanks and a bare fence
RemoveFences(stage, text) ==
    IF stage = "final_qa"
    THEN Strip(StripFenceEnd(StripFenceStart(StripFenceJson(Strip(text)))))
    ELSE StripFenceEnd(StripFenceJson(text))

\* the positions of token c in text
Positions(text, c) == {i \in 1..Len(text) : text[i] = c}

Min(S) == CHOOSE x \in S : \A y \in S : x <= y
Max(S) == CHOOSE x \in S : \A y \in S : y <= x

\* the match stops at the first closing brace instead of the last
JsonMatchShortest(text) ==
    LET open == Positions(text, "{")
        close == Positions(text, "}")
    IN  IF open # {} /\ \E j \in close : j > Min(open)
        THEN SubSeq(text, Min(open), Min({j \in close : j > Min(open)}))
        ELSE text

\* json_match = re.search(brace .* brace, text, re.DOTALL); text = json_match.group(0)
\* if it matched: the span from the first "{" to the last "}"
JsonMatch(text) ==
    LET open == Positions(text, "{")
        close == Positions(text, "}")
    IN  IF open # {} /\ close # {} /\ Min(open) < Max(close)
        THEN SubSeq(text, Min(open), Max(close))
        ELSE text

\* the nesting depth after the first n tokens
RECURSIVE Depth(_, _)
Depth(text, n) ==
    IF n = 0 THEN 0
    ELSE Depth(text, n - 1) + (IF text[n] = "{" THEN 1 ELSE IF text[n] = "}" THEN -1 ELSE 0)

\* one JSON object: it opens with a brace, closes with the matching brace at
\* its end, and holds no code fence
IsJsonObject(text) ==
    /\ text # <<>> /\ Head(text) = "{"
    /\ Depth(text, Len(text)) = 0
    /\ \A n \in 1..(Len(text) - 1) : Depth(text, n) > 0
    /\ Range(text) \cap {FENCE, FENCE_JSON} = {}

\* json.loads: the value (blanks around it are skipped), or JSONDecodeError
JsonLoads(text) ==
    IF IsJsonObject(Strip(text)) THEN [k |-> "value", v |-> Strip(text)]
    ELSE [k |-> "nonjson"]

\* the clean-up and parse of a stage applied to the text of its answer
ParseText(stage, text) == JsonLoads(JsonMatch(RemoveFences(stage, text)))

\* at most this many tokens before and after the object
MaxAmbleLen == 2

AmbleTokens == {FENCE_JSON, FENCE, "w", " "}

Ambles == UNION {[1..n -> AmbleTokens] : n \in 0..MaxAmbleLen}

\* objects: empty, with a member, nested, with two nested objects and blanks
JsonObjects ==
    {<<"{", "}">>, <<"{", "w", "}">>, <<"{", "{", "}", "}">>,
     <<"{", " ", "{", "}", "w", "{", "w", "}", "}">>}

InitExtract ==
    /\ GwIdle
    /\ EndpointIdle
    /\ ReconIdle
    /\ UrlIdle
    /\ UploadIdle
    /\ PromptIdle
    /\ LinksIdle
    /\ ex_pc = "input"
    /\ ex_stage \in Stages
    /\ ex_pre \in Ambles
    /\ ex_obj \in JsonObjects
    /\ ex_post \in Ambles
    /\ ex_out = NotParsed

\* the parse block of ex_stage on the text ex_pre + ex_obj + ex_post
ExtractAndParse ==
    /\ ex_pc = "input"
    /\ ex_out' = ParseText(ex_stage, ex_pre \o ex_obj \o ex_post)
    /\ ex_pc' = "parsed"
    /\ UNCHANGED <<ex_stage, ex_pre, ex_obj, ex_post, gw_vars, ep_vars, rc_vars, url_vars,
                   up_vars, tp_vars, lk_vars>>

NextExtract == ExtractAndParse

SpecExtract == InitExtract /\ [][NextExtract]_vars

-----------------------------------------------------------------------------
(* The link collection of parse_resume_pdf, lines 798-838 *)

\* at most this many link annotations in the document, and this many URLs
\* found in its plain text
MaxAnnots == 2
MaxPlain == 2

\* uri values of annotations; blanks around a URL are stripped
UriPool == {<<>>, <<"u">>, <<"v">>, <<" ", "u">>}

\* the text under the rectangle of an annotation
AnchorPool == {<<>>, <<"t">>}

\* link.get('kind') == fitz.LINK_URI, link.get('uri', ''), page.get_textbox(rect)
Annotations == [is_uri : BOOLEAN, uri : UriPool, anchor : AnchorPool]

\* what the URL pattern matches in the text: never blank, possibly repeated
PlainUrls == {<<"u">>, <<"v">>}

\* the entries appended for the annotations, in page order
RECURSIVE EmbeddedLinks(_)
EmbeddedLinks(annots) ==
    IF annots = <<>> THEN <<>>
    ELSE LET link == Head(annots)
             url == Strip(link.uri)
             clickable_text == Strip(link.anchor)
         IN  (IF link.is_uri /\ url # <<>>
              THEN <<[text |-> IF clickable_text # <<>> THEN clickable_text ELSE url,
                      url |-> url]>>
              ELSE <<>>)
             \o EmbeddedLinks(Tail(annots))

\* the entries appended for the plain-text URLs not in seen_urls; seen_urls
\* is computed once, before the loop
RECURSIVE PlainLinks(_, _)
PlainLinks(plain, seen_urls) ==
    IF plain = <<>> THEN <<>>
    ELSE LET url == Strip(Head(plain))
         IN  (IF url \notin seen_urls THEN <<[text |-> url, url |-> url]>> ELSE <<>>)
             \o PlainLinks(Tail(plain), seen_urls)

\* link_details after both sources were read
CollectLinks(annots, plain) ==
    LET embedded == EmbeddedLinks(annots)
        seen_urls == {embedded[i].url : i \in 1..Len(embedded)}
    IN  embedded \o PlainLinks(plain, seen_urls)

InitLinks ==
    /\ GwIdle
    /\ EndpointIdle
    /\ ReconIdle
    /\ UrlIdle
    /\ UploadIdle
    /\ PromptIdle
    /\ ExtractIdle
    /\ lk_pc = "input"
    /\ lk_annots \in UNION {[1..n -> Annotations] : n \in 0..MaxAnnots}
    /\ lk_plain \in UNION {[1..n -> PlainUrls] : n \in 0..MaxPlain}
    /\ lk_details = <<>>

\* lines 804-838 on a document with these annotations and plain-text URLs
CollectStep ==
    /\ lk_pc = "input"
    /\ lk_details' = CollectLinks(lk_annots, lk_plain)
    /\ lk_pc' = "collected"
    /\ UNCHANGED <<lk_annots, lk_plain, gw_vars, ep_vars, rc_vars, url_vars, up_vars, tp_vars,
                   ex_vars>>

NextLinks == CollectStep

SpecLinks == InitLinks /\ [][NextLinks]_vars

-----------------------------------------------------------------------------
(* The keyword append applied to its own result *)

\* keywords of a master list: plain, in two casings, blank, and with a comma
IdemKeywords == {<<"a">>, <<"A">>, <<" ">>, <<"a", ",">>}

IdemMasterLists == {Sorted(ks) : ks \in {x \in SUBSET IdemKeywords : Cardinality(x) <= MaxKw}}

InitReconTwice ==
    /\ GwIdle
    /\ EndpointIdle
    /\ rc_pc = "input"
    /\ rc_K \in IdemMasterLists
    /\ rc_S \in StringsUpTo(MaxSkillsLen)
    /\ rc_out = <<>>
    /\ UrlIdle
    /\ UploadIdle
    /\ PromptIdle
    /\ ExtractIdle
    /\ LinksIdle

\* lines 1814-1848 with final_resume_object['skills'] = the result of the first run
ReconcileAgain ==
    /\ rc_pc = "done"
    /\ rc_out' = ReconcileSkills(rc_out, rc_K)
    /\ rc_pc' = "twice"
    /\ UNCHANGED <<rc_K, rc_S, gw_vars, ep_vars, url_vars, up_vars, tp_vars, ex_vars, lk_vars>>

NextReconTwice == ReconcileStep \/ ReconcileAgain

SpecReconTwice == InitReconTwice /\ [][NextReconTwice]_vars

-----------------------------------------------------------------------------
(* Properties *)

\* C1: an invocation whose every attempt was answered 5xx never issues more
\* than 5 attempts, and when it has ended it has returned (not raised) the
\* generic failure after exactly 5 attempts.
C1_RetryCeiling ==
    /\ gw_seen = {"s5xx"} => gw_attempts <= 5
    /\ (GwFinished /\ gw_seen = {"s5xx"}) =>
          /\ gw_pc = "returned"
          /\ gw_attempts = 5
          /\ gw_result = GenericFailure
          /\ HasErrorKey(gw_result)

C1_Witness ==
    /\ gw_pc = "returned" /\ gw_seen = {"s5xx"}
    /\ gw_attempts = 5 /\ gw_result = GenericFailure

\* C2: once an attempt is answered 4xx the invocation has returned the client
\* error: no attempt is open, and the number of sleeps is the number of
\* attempts before that one, so none was made for the 4xx.
C2_ClientErrorTerminal ==
    gw_last = "c4xx" =>
        /\ gw_pc = "returned"
        /\ gw_result = ClientError
        /\ HasErrorKey(gw_result)
        /\ gw_sleeps = gw_attempts - 1

C2_Witness ==
    /\ gw_last = "c4xx" /\ gw_attempts = max_retries /\ gw_pc = "returned"
    /\ gw_sleeps = max_retries - 1

\* C3: an invocation never raises: it ends by returning the envelope or a dict
\* with the key "error".
C3_NoExceptionEscapes ==
    /\ gw_pc # "raised"
    /\ gw_pc = "returned" => gw_result.kind \in {"envelope", "error"}

\* C4: when Analyze took any branch but the successful one, the request has
\* ended with status 500, Analyze is the only gateway call issued, and neither
\* a Python-only step nor the renderer ran.
C4_AnalyzeFatal ==
    (last.stage = "analyze" /\ last.how # "ok") =>
        /\ pc = "done"
        /\ response.status = 500
        /\ calls = <<"analyze">>
        /\ ran = <<>>

C4_Witness ==
    /\ last = [stage |-> "analyze", how |-> "not_json"]
    /\ pc = "done" /\ response.status = 500 /\ calls = <<"analyze">>

\* the failures of a non-fatal stage: the gateway returned an error, the text
\* is no JSON, or it is JSON of another shape than the stage expects
StageFailures == {"api_error", "not_json", "wrong_shape"}

\* C5: when Verify failed, the request goes on to Transform (it has not been
\* answered) and the master keyword list is the stage-1 keywords alone.
C5_VerifyNonFatal ==
    (last.stage = "verify" /\ last.how \in StageFailures) =>
        /\ pc = "call2"
        /\ response = Pending
        /\ master_keyword_list = MasterKeywordList(jd_analysis_report, <<>>)

\* C6: when Transform took any branch but the successful one, the request has
\* ended with status 500, Final QA was not issued and no Python-only step nor
\* the renderer ran; Final QA is issued, and the later steps run, only with a
\* non-empty draft.
C6_TransformFatal ==
    /\ (last.stage = "transform" /\ last.how # "ok") =>
          /\ pc = "done"
          /\ response.status = 500
          /\ calls = <<"analyze", "verify", "transform">>
          /\ ran = <<>>
    /\ (pc = "call3" \/ ran # <<>>) =>
          /\ resume_object_draft # NoObject
          /\ ~(resume_object_draft = EmptyObject)

C6_Witness ==
    /\ last = [stage |-> "transform", how |-> "no_resume_object"]
    /\ pc = "done" /\ response.status = 500
    /\ calls = <<"analyze", "verify", "transform">>

\* C7: when Final QA failed, the request is not ended there, and the object
\* handed to the Python-only steps is the draft.
C7_QANonFatal ==
    (last.stage = "final_qa" /\ last.how \in StageFailures) =>
        /\ ~(pc = "done" /\ ran = <<>>)
        /\ pc = "cleanup" => final_resume_object = resume_object_draft

\* C8: a request in which Final QA resolved, by success or by failure, does not
\* end before the link normalizer, the keyword reconciler and the skill
\* partitioner have all run, and the renderer runs after the three of them.
C8_CleanupAlwaysRuns ==
    /\ (pc = "done" /\ last.stage = "final_qa" /\ last.how \in StageFailures \cup {"ok"}) =>
          {"link_normalizer", "keyword_reconciler", "skill_partitioner"} \subseteq Range(ran)
    /\ "renderer" \in Range(ran) =>
          /\ ran[Len(ran)] = "renderer"
          /\ {"link_normalizer", "keyword_reconciler", "skill_partitioner"} \subseteq Range(ran)

\* the comma-separated tokens of a skills string, trimmed and case-folded
Tokens(S) == {Strip(Lower(x)) : x \in Range(Split(S))}

\* C9: after the reconciliation step every element of K is, trimmed and
\* case-folded, one of the comma-separated tokens of the skills string.
C9_Coverage ==
    rc_pc = "done" => \A k \in Range(rc_K) : Strip(Lower(k)) \in Tokens(rc_out)

\* the skills a field of the resume object holds, trimmed and case-folded
FieldTokens(v) ==
    IF v.t = "str" THEN Tokens(v.s)
    ELSE IF v.t = "list" THEN {Strip(Lower(x)) : x \in Range(v.l)}
    ELSE {}

\* C10: when the renderer runs, every keyword of the master keyword list is
\* among the skills of skills_visible and skills_invisible.
C10_RenderedCoverage ==
    ("renderer" \in Range(ran) /\ master_keyword_list.t = "list") =>
        \A k \in Range(master_keyword_list.l) :
            Strip(Lower(k)) \in FieldTokens(final_resume_object.skills_visible)
                                \cup FieldTokens(final_resume_object.skills_invisible)

\* how many elements of the token list l are, trimmed and case-folded, equal to k
RECURSIVE CountFold(_, _)
CountFold(l, k) ==
    IF l = <<>> THEN 0
    ELSE (IF Strip(Lower(Head(l))) = k THEN 1 ELSE 0) + CountFold(Tail(l), k)

\* the first element of the list K that is, trimmed and case-folded, equal to k
FirstSeen(K, k) == K[CHOOSE i \in 1..Len(K) :
                        /\ Strip(Lower(K[i])) = k
                        /\ \A j \in 1..(i - 1) : Strip(Lower(K[j])) # k]

\* a keyword that is text without a comma
PlainKeyword(k) == Strip(k) # <<>> /\ "," \notin Range(k)

\* C11: after the reconciliation step every plain master keyword that was
\* missing from the skills string occurs in the result exactly once
\* (compared trimmed and case-folded), in its first-seen casing.
C11_SingleForm ==
    rc_pc = "done" =>
        \A k \in Range(rc_K) :
            (PlainKeyword(k) /\ Strip(Lower(k)) \in MissingSkills(rc_S, rc_K)) =>
                /\ CountFold(Split(rc_out), Strip(Lower(k))) = 1
                /\ Strip(FirstSeen(rc_K, Strip(Lower(k)))) \in Range(StripAll(Split(rc_out)))

\* C12: applying enforce_absolute_urls to its own result changes nothing: the
\* line after the second application is the line after the first.
C12_Idempotent ==
    url_pc = "twice" => url_out = enforce_absolute_urls(url_in)

LINKEDIN == <<"linkedin.com">>
GITHUB == <<"github.com">>
PORTFOLIO == <<"ayaanahmad-portfolio.", "netlify.app">>
KnownDomains == {LINKEDIN, GITHUB, PORTFOLIO}

\* the positions at which d occurs in line
Occurrences(line, d) ==
    {i \in 1..Len(line) : i + Len(d) - 1 <= Len(line) /\ SubSeq(line, i, i + Len(d) - 1) = d}

\* some occurrence of d in line follows a scheme
HasSchemePrefixed(line, d) ==
    \E i \in Occurrences(line, d) : i > 1 /\ line[i - 1] \in {"http://", "https://"}

\* C13: for each known domain that the contact line holds without any
\* scheme-prefixed occurrence, every occurrence of it in the result follows
\* https://, whatever else the line holds; and a domain whose every occurrence
\* already follows https:// keeps the line's occurrences of it as they are.
C13_BareDomainsPrefixed ==
    url_pc = "once" =>
        \A d \in KnownDomains :
            /\ (Occurrences(url_in, d) # {} /\ ~HasSchemePrefixed(url_in, d)) =>
                  \A i \in Occurrences(url_out, d) : i > 1 /\ url_out[i - 1] = "https://"
            /\ (\A i \in Occurrences(url_in, d) : i > 1 /\ url_in[i - 1] = "https://") =>
                  \A i \in Occurrences(url_out, d) :
                      /\ i > 1 /\ url_out[i - 1] = "https://"
                      /\ (i > 2 /\ url_out[i - 2] = "https://") => (i > 2 /\ url_in[i - 2] = "https://")

\* the non-empty skills of a skills string, trimmed and case-folded
SkillSet(S) == Tokens(S) \ {<<>>}

\* C14: after the skill partitioner the visible skills and the invisible
\* skills, compared case-insensitively, share no skill, and together they are
\* the non-empty trimmed tokens of the skills string that was partitioned.
C14_PartitionComplete ==
    (pc = "render" /\ rc_pc = "done") =>
        /\ final_resume_object.skills_visible.t = "str"
        /\ final_resume_object.skills_invisible.t = "str"
        /\ SkillSet(final_resume_object.skills_visible.s)
              \cap SkillSet(final_resume_object.skills_invisible.s) = {}
        /\ SkillSet(final_resume_object.skills_visible.s)
              \cup SkillSet(final_resume_object.skills_invisible.s) = SkillSet(rc_out)

C14_Witness ==
    /\ pc = "render" /\ rc_pc = "done"
    /\ rc_out = <<"A", ",", "b">>
    /\ final_resume_object.skills_visible = Str(<<"A">>)
    /\ final_resume_object.skills_invisible = Str(<<"b">>)

\* the skills value is absent or the empty string
EmptySkills(v) == v.t = "absent" \/ (v.t = "str" /\ v.s = <<>>)

\* C15: the partitioning step leaves the resume object with the keys
\* skills_visible and skills_invisible and without the key skills, and with
\* both fields the empty string when the skills it found were empty or absent;
\* the object stays so up to the end of the request.
C15_PartitionKeys ==
    /\ [][(pc = "partition" /\ pc' = "render") =>
            /\ final_resume_object'.skills_visible.t # "absent"
            /\ final_resume_object'.skills_invisible.t # "absent"
            /\ final_resume_object'.skills.t = "absent"
            /\ EmptySkills(final_resume_object.skills) =>
                  /\ final_resume_object'.skills_visible = Str(<<>>)
                  /\ final_resume_object'.skills_invisible = Str(<<>>)]_vars
    /\ []("skill_partitioner" \in Range(ran) =>
            /\ final_resume_object.skills_visible.t # "absent"
            /\ final_resume_object.skills_invisible.t # "absent"
            /\ final_resume_object.skills.t = "absent")

C15_Witness ==
    /\ "skill_partitioner" \in Range(ran)
    /\ last = [stage |-> "final_qa", how |-> "api_error"]
    /\ resume_object_draft.skills = Absent
    /\ master_keyword_list = List(<<>>)
    /\ final_resume_object.skills_visible = Str(<<>>)
    /\ final_resume_object.skills_invisible = Str(<<>>)
    /\ final_resume_object.skills = Absent

\* C16: a request that uploaded a document without pages, without text, or
\* on which extraction throws has ended with status 400 - the answer given
\* when parse_resume_pdf returned a failure value, not the 500 given when an
\* exception reached the handler - and has issued no gateway call.
C16_UnparseableUpload ==
    (last.stage = "upload" /\ last.how \in {"no_pages", "no_text", "parse_raised"}) =>
        /\ pc = "done"
        /\ response = HTTPException(400, "Could not parse the provided PDF.", "")
        /\ calls = <<>>
        /\ gw_pc = "idle" /\ gw_attempts = 0

C16_Witness ==
    /\ last = [stage |-> "upload", how |-> "no_pages"]
    /\ pc = "done" /\ response.status = 400 /\ calls = <<>>

\* a gateway call is in flight: issued and not yet returned or raised
InFlight == gw_pc \in {"post", "sleep"}

\* C17: the calls a request has issued are always the first of Analyze,
\* Verify, Transform, Final QA in that order; the call in flight is the one
\* issued last; and a call is issued only while none is in flight.
C17_SequentialCalls ==
    /\ [](/\ Len(calls) <= 4
          /\ calls = SubSeq(<<"analyze", "verify", "transform", "final_qa">>, 1, Len(calls))
          /\ InFlight => (calls # <<>> /\ gw_stage = calls[Len(calls)]))
    /\ [][calls' # calls => (~InFlight /\ Len(calls') = Len(calls) + 1 /\ InFlight')]_vars

C17_Witness ==
    /\ calls = <<"analyze", "verify", "transform", "final_qa">>
    /\ gw_pc = "sleep" /\ gw_stage = "final_qa" /\ pc = "call3"

\* C18: a request that has left the upload block without a failed write of
\* its own holds what it would hold had it run alone: its own resume text
\* and no error when its document has text, the 400 when it has none.
C18_NoInterference ==
    \A r \in Requests :
        (up_pc[r] = "left" /\ up_status[r] # 500) =>
            IF up_name[r].doc = "text"
            THEN up_status[r] = 200 /\ up_text[r] = r
            ELSE up_status[r] = 400

\* C19: when a request leaves the upload block, by any exit, no file exists
\* at its temp path and the file it created is at no path.
C19_TempFileRemoved ==
    [][\A r \in Requests :
          (up_pc[r] # "left" /\ up_pc'[r] = "left") =>
              /\ up_fs'.dir[temp_pdf_path(r)] = 0
              /\ \A n \in FileNames : up_fs'.dir[n] # r]_vars

C19_Witness ==
    /\ \A r \in Requests : up_pc[r] = "left"
    /\ up_name[1].filename # up_name[2].filename
    /\ up_name[1].doc = "no_text" /\ up_status[1] = 400
    /\ up_status[2] = 500
    /\ \A n \in FileNames : up_fs.dir[n] = 0

\* the stage-1 keywords in the order the handler concatenates the tiers
Stage1Keywords(report) ==
    report.hard_skills \o report.tools \o report.domain_phrases \o report.soft_skills

\* C20: no two elements of the master keyword list are equal after trimming
\* and case folding, and every stage-1 keyword is in the list in the casing
\* in which it was first seen.
C20_CaseInsensitiveDedup ==
    master_keyword_list.t = "list" =>
        LET l == master_keyword_list.l
            s1 == Stage1Keywords(jd_analysis_report)
        IN  /\ \A i, j \in 1..Len(l) :
                  i # j => Strip(Lower(l[i])) # Strip(Lower(l[j]))
            /\ \A i \in 1..Len(s1) :
                  Strip(s1[i]) # <<>> => FirstSeen(s1, Strip(Lower(s1[i]))) \in Range(l)

\* C21: the multiplier put into the Transform prompt is one of 2, 3, 5: the
\* one sent when it is one of them, else 2; and a field that was not sent is
\* put in as 2.
C21_MultiplierClamped ==
    tp_pc = "built" =>
        /\ tp_prompt.multiplier \in {<<"2">>, <<"3">>, <<"5">>}
        /\ (tp_multiplier.given /\ tp_multiplier.v \in {2, 3, 5}) =>
              tp_prompt.multiplier = IntToStr(tp_multiplier.v)
        /\ ~tp_multiplier.given => tp_prompt.multiplier = <<"2">>
        /\ ~tp_weeks.given => tp_prompt.weeks = <<"2">>

\* C22: every keyword of the master keyword list is one of the keywords of
\* the required-keywords string that is put into the Final QA prompt.
C22_QAPromptHasMasterList ==
    (pc = "call3" /\ master_keyword_list.t = "list") =>
        \A k \in Range(master_keyword_list.l) :
            k \in Range(StripAll(Split(jd_all_skills_str)))

Retryable == {"s5xx", "transport"}

\* C23: an invocation never makes more than 5 attempts; after a failed
\* attempt another one follows exactly when the failure was a 5xx or a
\* transport error and fewer than 5 attempts were made; and an attempt that
\* succeeded has returned the envelope and is the last attempt.
C23_RetryDiscipline ==
    /\ [](/\ gw_attempts <= 5
          /\ (gw_last \in Retryable /\ gw_attempts < 5) => gw_pc \in {"sleep", "post"}
          /\ (gw_last \in Retryable /\ gw_attempts = 5) => gw_pc \in {"sleep", "returned"}
          /\ (gw_last \in Retryable /\ gw_pc = "returned") => gw_result = GenericFailure
          /\ gw_last = "ok_json" => (gw_pc = "returned" /\ gw_result = Envelope))
    /\ [][gw_attempts' = gw_attempts + 1 =>
            (gw_attempts = 0 \/ (gw_last \in Retryable /\ gw_attempts < 5))]_vars
    /\ [][(gw_last \in {"ok_json", "ok_nonjson", "c4xx"}) => (gw_attempts' = gw_attempts)]_vars

C23_Witness ==
    /\ gw_seen = {"s5xx", "transport", "ok_json"}
    /\ gw_last = "ok_json" /\ gw_attempts = 5
    /\ gw_pc = "returned" /\ gw_result = Envelope

\* C24: the delays an invocation has slept are, in tenths of a second and in
\* order, the first of 10, 21, 42, 83, 164 - one per failed attempt, whether
\* it failed by a 5xx or by a transport error; each is 2^n seconds plus n
\* tenths, they increase strictly, and the whole seconds double.
C24_BackoffDelays ==
    /\ Len(gw_delays) = gw_sleeps
    /\ Len(gw_delays) <= 5
    /\ gw_delays = SubSeq(<<10, 21, 42, 83, 164>>, 1, Len(gw_delays))
    /\ \A i \in 1..Len(gw_delays) :
          /\ gw_delays[i] = (Pow2(i - 1) * 10) + (i - 1)
          /\ i > 1 => /\ gw_delays[i] > gw_delays[i - 1]
                      /\ gw_delays[i] \div 10 = 2 * (gw_delays[i - 1] \div 10)
    /\ (gw_last \in Retryable /\ gw_pc \in {"sleep", "returned"}) => Len(gw_delays) = gw_attempts

C24_Witness ==
    /\ gw_delays = <<10, 21, 42, 83, 164>>
    /\ gw_seen = {"s5xx", "transport"}
    /\ gw_pc = "returned"

\* C25: once the Analyze answer has been read as a JSON object without the
\* keywords taxonomy (the empty object, which is also what an envelope
\* without candidate text is read as), the request has ended with a 500
\* answer and Verify, Transform and Final QA were not called.
C25_IncompleteAnalysisFatal ==
    jd_analysis_report = NoKeywords =>
        /\ pc = "done"
        /\ response \in {Unhandled} \cup
                        {HTTPException(500, "Failed to parse JD Analysis from the AI. The response may be invalid.", "")}
        /\ calls = <<"analyze">>

\* the trimmed non-empty tokens of a skills string, in order
TokenSeq(S) == StripNonEmpty(Split(S))

\* C26: after the keyword-reconciliation step, whether or not a keyword of
\* the master list was missing, the tokens of the skills string are pairwise
\* distinct and in sorted order.
C26_ResultSortedDistinct ==
    rc_pc = "done" =>
        \A i, j \in 1..Len(TokenSeq(rc_out)) :
            i < j => StrLess(TokenSeq(rc_out)[i], TokenSeq(rc_out)[j])

\* C27: the result of enforce_absolute_urls holds no "http://" and no
\* doubled prefix "https://https://", however many scheme prefixes the
\* contact line stacked.
C27_NoInsecureNoDoubled ==
    url_pc = "once" =>
        /\ ~Contains(url_out, HTTP)
        /\ ~Contains(url_out, HTTPS \o HTTPS)

\* the trimmed, case-folded form of a token or of a tier entry
Folded(x) == Strip(Lower(x))

\* the token matches some entry of the given tier of the report
MatchesTier(x, tier) == \E e \in Range(tier) : Folded(e) # <<>> /\ Folded(e) = Folded(x)

\* C28: after the skill partitioner a token of the skills string is among
\* the visible skills if and only if its trimmed, case-folded form equals
\* that of some hard_skills or soft_skills entry of the analysis report; every
\* other token - one that matches only tools or domain_phrases, or no tier
\* at all - is among the invisible skills and not among the visible ones.
C28_VisibleIffTier12 ==
    (pc = "render" /\ rc_pc = "done") =>
        \A x \in Range(TokenSeq(rc_out)) :
            LET tier12 == \/ MatchesTier(x, jd_analysis_report.hard_skills)
                          \/ MatchesTier(x, jd_analysis_report.soft_skills)
                visible == x \in Range(TokenSeq(final_resume_object.skills_visible.s))
                invisible == x \in Range(TokenSeq(final_resume_object.skills_invisible.s))
            IN  /\ visible <=> tier12
                /\ invisible <=> ~tier12

C28_Witness ==
    /\ pc = "render" /\ rc_pc = "done"
    /\ rc_out = <<"b", ",", "A">>
    /\ jd_analysis_report.hard_skills = <<<<" ", "a", " ">>>>
    /\ jd_analysis_report.tools = <<<<"b">>>>
    /\ final_resume_object.skills_visible = Str(<<"A">>)
    /\ final_resume_object.skills_invisible = Str(<<"b">>)

\* C29: when the partitioning step raises (the skills value is a non-empty
\* list), the request is not ended by it: the step leaves the whole skills
\* value as skills_visible, the empty string as skills_invisible and no
\* skills key, no answer has been given, and rendering comes next.
C29_PartitionFallback ==
    [][(/\ pc = "partition"
        /\ final_resume_object.skills.t = "list"
        /\ final_resume_object.skills.l # <<>>) =>
            /\ pc' = "render"
            /\ response' = Pending
            /\ final_resume_object'.skills_visible = final_resume_object.skills
            /\ final_resume_object'.skills_invisible = Str(<<>>)
            /\ final_resume_object'.skills.t = "absent"
            /\ ran' = Append(ran, "skill_partitioner")]_vars

C29_Witness ==
    /\ pc = "render"
    /\ response = Pending
    /\ final_resume_object.skills_visible = List(<<<<"a">>>>)
    /\ final_resume_object.skills_invisible = Str(<<>>)
    /\ final_resume_object.skills.t = "absent"

\* C30: the keyword-reconciliation step never ends the request: whatever the
\* skills value and the master list are, no answer is given and the
\* partitioning step comes next; and when a statement of the step raises (the
\* skills value is null or a list, which have no split method), the resume
\* object is left as it was.
C30_ReconcileNeverFatal ==
    [][pc = "reconcile" =>
            /\ pc' = "partition"
            /\ response' = Pending
            /\ ran' = Append(ran, "keyword_reconciler")
            /\ final_resume_object.skills.t \in {"null", "list"} =>
                  final_resume_object' = final_resume_object]_vars

C30_Witness ==
    /\ pc = "partition"
    /\ response = Pending
    /\ final_resume_object.skills = List(<<<<"a">>>>)
    /\ master_keyword_list.t = "list" /\ master_keyword_list.l # <<>>
    /\ ran[Len(ran)] = "keyword_reconciler"

\* C31: at each of the four stages, a JSON object that the model surrounds
\* with a preamble and a postamble holding no brace (code fences or not)
\* parses to the value the object alone parses to, which is that object: the
\* candidate handed to json.loads is the span from the first "{" to the last "}".
C31_ObjectExtracted ==
    ex_pc = "parsed" =>
        /\ ex_out = [k |-> "value", v |-> ex_obj]
        /\ ex_out = ParseText(ex_stage, ex_obj)
        /\ JsonMatch(RemoveFences(ex_stage, ex_pre \o ex_obj \o ex_post)) = ex_obj

C31_Witness ==
    /\ ex_pc = "parsed"
    /\ ex_stage = "final_qa"
    /\ ex_pre = <<"w", FENCE_JSON>>
    /\ ex_obj = <<"{", " ", "{", "}", "w", "{", "w", "}", "}">>
    /\ ex_post = <<FENCE, "w">>
    /\ ex_out = [k |-> "value", v |-> ex_obj]

\* the fields of the resume object other than those in keys are the same in o and p
SameExcept(o, p, keys) == \A f \in (DOMAIN o) \ keys : o[f] = p[f]

\* C32: each deterministic step changes only what it targets: the link
\* normalizer only contactInfo.contactLine (name and location stay), the
\* keyword reconciler only skills, the skill partitioner only skills,
\* skills_visible and skills_invisible; the other fields of the resume
\* object are after each step what they were before it.
C32_Frame ==
    /\ [][(pc = "cleanup" /\ pc' = "reconcile") =>
            /\ SameExcept(final_resume_object, final_resume_object', {"contactInfo"})
            /\ final_resume_object'.contactInfo.t = final_resume_object.contactInfo.t
            /\ final_resume_object.contactInfo.t = "dict" =>
                  final_resume_object'.contactInfo.rest = final_resume_object.contactInfo.rest
            /\ final_resume_object.contactInfo.t # "dict" =>
                  final_resume_object'.contactInfo = final_resume_object.contactInfo]_vars
    /\ [][pc = "reconcile" =>
            SameExcept(final_resume_object, final_resume_object', {"skills"})]_vars
    /\ [][pc = "partition" =>
            SameExcept(final_resume_object, final_resume_object',
                       {"skills", "skills_visible", "skills_invisible"})]_vars

C32_Witness ==
    /\ pc = "render"
    /\ ran = <<"link_normalizer", "keyword_reconciler", "skill_partitioner">>
    /\ final_resume_object.contactInfo = Dict(Str(<<"https://", "linkedin.com">>))
    /\ final_resume_object.skills_invisible = Str(<<"b">>)
    /\ final_resume_object.skills_visible = Str(<<"A">>)
    /\ final_resume_object.body = "Q"

\* the answer of a fatal stage to output it could not parse
ParseFailureAnswer(stage) ==
    IF stage = "analyze"
    THEN HTTPException(500, "Failed to parse JD Analysis from the AI. The response may be invalid.", "")
    ELSE HTTPException(500, "Failed to parse the transformed resume from the AI. The response may be invalid.", "")

\* C33: the answer to a request that failed at a generation stage is
\* determined by the stage and the kind of failure, not by the payload: any
\* two requests that ended at the same stage on malformed model output (text
\* that is no JSON, or JSON of another shape) got the same status and detail,
\* the parse-failure answer of that stage.
C33_DetailIndependent ==
    (pc = "done" /\ last.stage \in {"analyze", "transform"}
                 /\ last.how \in {"not_json", "wrong_shape", "no_resume_object"}) =>
        response = ParseFailureAnswer(last.stage)

\* C34: the link collection holds each URL at most once: no two of its
\* entries, whichever source they came from, have the same url.
C34_UrlsUnique ==
    lk_pc = "collected" =>
        \A i, j \in 1..Len(lk_details) : lk_details[i].url = lk_details[j].url => i = j

\* C35: a request makes at most four gateway invocations, each of at most 5
\* HTTP attempts, hence at most 20 attempts: the attempts of the invocation
\* in course and 5 for each earlier one never exceed 20.  A request answered
\* with a document made exactly four invocations, and a request answered
\* with 400 made none.
C35_CallBudget ==
    /\ Len(calls) <= 4
    /\ gw_attempts <= 5
    /\ gw_attempts > 0 => (calls # <<>> /\ (5 * (Len(calls) - 1)) + gw_attempts <= 20)
    /\ (pc = "done" /\ response = Document) => Len(calls) = 4
    /\ (pc = "done" /\ response.status = 400) => calls = <<>>

C35_Witness ==
    /\ Len(calls) = 4
    /\ gw_attempts = 5
    /\ gw_seen = {"s5xx", "transport"}
    /\ pc = "call3"

\* C36: provided every HTTP attempt ends, every gateway invocation that was
\* issued ends, and every request ends with one answer that it keeps: a
\* document, a 400 (from the upload-parsing stage only) or a 500.
C36_Terminates ==
    /\ <>(pc = "done")
    /\ InFlight ~> ~InFlight
    /\ [](pc = "done" =>
            \/ response = Document
            \/ (response.status = 400 /\ last.stage = "upload")
            \/ response.status = 500)
    /\ [][pc = "done" => (pc' = "done" /\ response' = response)]_vars

C36_Witness ==
    /\ pc = "done"
    /\ response = Document
    /\ ran = <<"keyword_reconciler", "skill_partitioner", "renderer">>
    /\ Len(calls) = 4

\* C37: every failed attempt that is retryable is followed by one sleep, the
\* fifth as well: an invocation that returned the generic failure made 5
\* attempts and 5 sleeps, and its fifth sleep is followed by the return and
\* by no attempt.
C37_SleepAfterLastAttempt ==
    /\ [](/\ gw_last \in Retryable => gw_sleeps = gw_attempts
          /\ (gw_pc = "returned" /\ gw_result = GenericFailure) =>
                (gw_attempts = 5 /\ gw_sleeps = 5 /\ gw_seen \subseteq Retryable))
    /\ [][(gw_pc = "sleep" /\ gw_sleeps = 5) =>
            /\ gw_pc' = "returned"
            /\ gw_result' = GenericFailure
            /\ gw_attempts' = gw_attempts
            /\ gw_sleeps' = gw_sleeps]_vars

C37_Witness ==
    /\ gw_pc = "sleep"
    /\ gw_attempts = 5 /\ gw_sleeps = 5
    /\ gw_seen = {"transport"}

\* C38: the keyword-reconciliation step is idempotent: applied to its own
\* result with the same master list it leaves the skills string as the first
\* application made it.
C38_ReconcileIdempotent ==
    rc_pc = "twice" => rc_out = ReconcileSkills(rc_S, rc_K)

\* C39: when the Final QA text parsed to a JSON object and the request goes
\* on, the final resume object is that object as a whole, the empty object
\* included, and not the draft or a mix with it; the final resume object is
\* the draft only when the QA call returned an error or its text was no JSON.
C39_QAObjectReplacesDraft ==
    [][(pc = "call3" /\ pc' = "cleanup") =>
            IF last'.how = "ok"
            THEN /\ final_resume_object' \in QAObjects
                 /\ final_resume_object' # resume_object_draft
            ELSE /\ last'.how \in {"api_error", "not_json"}
                 /\ final_resume_object' = resume_object_draft]_vars

C39_Witness ==
    /\ pc = "cleanup"
    /\ last = [stage |-> "final_qa", how |-> "ok"]
    /\ final_resume_object = EmptyObject
    /\ resume_object_draft.body = "D"
=============================================================================
